---------------------------- MODULE Spec2Model ----------------------------
(***************************************************************************)
(* Event codec (quantizer, encoder, decoder, windower), batch driver,      *)
(* sampler and autoregressive generator loop of MuGAN (src/src/config.py,  *)
(* src/src/preprocess.py, src/src/generate.py) and the generation service  *)
(* (src/back/controllers/generator_controller.py), and the training        *)
(* controller with its listeners and worker thread                         *)
(* (src/back/controllers/training_controller.py, src/back/routes/          *)
(* training.py, the TrainingCallback of src/src/train.py).                 *)
(*                                                                         *)
(* Musical time (offsets, durations, time shifts, in quarter notes) is     *)
(* counted in ticks of 1/400 quarter note, so that every table value and   *)
(* every class boundary of the code (all multiples of 1/16) and the        *)
(* decimal test values 0.74 and 0.76 are integers.  The code's comparison  *)
(* v < b * 1.5 is the integer comparison 2 * v < 3 * b.                    *)
(***************************************************************************)
EXTENDS Integers, Sequences, FiniteSets, TLC

VARIABLES
    \* quantizer calls (preprocess.quantize_duration / quantize_time_shift)
    q_call,          \* the last quantizer call: [fn, arg, ret, from_class]
    q_prev,          \* the call before it
    \* encoder (preprocess.extract_events_from_midi)
    enc_pc,          \* "idle", "start", "loop", "done"
    enc_score,       \* the elements of score.recurse().notesAndRests, in order
    enc_failed,      \* an exception was caught by the except clause
    all_notes,       \* the retained occurrences, sorted by offset
    enc_idx,         \* position of the for loop over all_notes (1-based)
    prev_offset,     \* offset of the previously encoded occurrence
    events,          \* the event list being built / returned
    time_shifts,     \* the time_shift computed for each event, before quantization
    \* generator loop (generate.generate_sequence)
    gen_pc,          \* "idle", "start", "loop", "returned", "raised"
    seed_sequence,   \* the caller's seed array
    length,          \* the target length
    temperature,     \* the sampling temperature, in tenths
    generated,       \* the list being built / returned
    gen_i,           \* the loop variable i
    input_seq,       \* the context handed to the last model.predict call
    predict_calls,   \* number of model.predict calls so far
    sampled,         \* the 6 indices sample_with_temperature returned last
    stop_at,         \* value of i when an external stop was requested, -1 if none
    \* decoder (generate.sequence_to_midi)
    dec_pc,          \* "idle", "loop", "write", "done"
    events_sequence, \* the events to decode
    dec_idx,         \* position of the for loop over events_sequence (1-based)
    current_offset,  \* the running onset, in ticks
    part,            \* the notes, chords and rests appended to the part
    dec_result,      \* the returned boolean ("none" before the return)
    \* windower (preprocess.extract_sequences)
    win_pc,          \* "idle", "call", "done"
    win_events,      \* the event stream of one file
    sequence_length, \* the window length L
    sequences,       \* the returned list of windows
    \* generation service (generator_controller.generate_music, get_model)
    svc_pc,          \* "idle", "generating", "midi", "responded", "failed"
    generation_id,   \* number of the current request (stands for its uuid4)
    _model,          \* the module's cached model: "None" or "loaded"
    _model_path,     \* the module's cached model path: "None" or "path"
    generated_dir,   \* the requests whose <generation_id>.mid is in GENERATED_DIR
    db_records,      \* the requests with a document in db.generated_music
    responses,       \* what each call of generate_music returned or raised
    success,         \* what sequence_to_midi returned ("none" before the call)
    \* batch driver (preprocess.preprocess_dataset)
    pp_pc,           \* "idle", "start", "collected", "returned", "raised"
    dir_files,       \* the MIDI files glob finds under data_dir, by kind
    max_files,       \* the max_files argument
    midi_files,      \* the list collect_midi_files returned
    pp_idx,          \* number of files the for loop has finished
    all_sequences,   \* the windows collected so far
    \* sampler (generate.sample_with_temperature)
    smp_pc,          \* "idle", "call", "returned", "raised"
    smp_predictions, \* the input distribution, in thousandths
    inv_temperature, \* 1 / temperature
    smp_dtype,       \* floating point type of the predictions array
    smp_ret,         \* the returned index, -1 before the return
    \* training controller (training_controller.py), its asyncio tasks and the
    \* executor threads that run the training function
    training_task,   \* the module's task: 0 for None, else the task's number
    task_pc,         \* per task: "none", "created", "awaiting", "done"
    task_cancel,     \* per task: cancel() was called and is not yet delivered
    should_stop_training, \* the module's stop flag
    current_session, \* the module's session: 0 for None, else its number
    session_mem,     \* the TrainingSession objects, by number
    session_db,      \* the documents of db.training_stats, by number
    worker,          \* per task: the thread of run_in_executor
    trn_call,        \* the last start_training / stop_training call
    \* training listeners (add/remove_training_listener, stats_callback)
    training_listeners, \* the module's listener list
    added,           \* every listener ever added, in the order of the calls
    removed,         \* every listener ever removed
    stats_no,        \* number of the stats update being dispatched, 0 before
    cb_pc,           \* stats_callback: "idle", "loop" (inside the for loop)
    loop_idx,        \* items the for loop's list iterator has yielded
    at_start,        \* the listeners in the list when the for loop began
    removed_during,  \* the listeners removed since the for loop began
    notified,        \* the calls of run_coroutine_threadsafe, in order
    lst_call         \* the last add / remove_training_listener call

quant_vars == <<q_call, q_prev>>
enc_vars == <<enc_pc, enc_score, enc_failed, all_notes, enc_idx, prev_offset, events,
              time_shifts>>
gen_vars == <<gen_pc, seed_sequence, length, temperature, generated, gen_i,
              input_seq, predict_calls, sampled, stop_at>>
dec_vars == <<dec_pc, events_sequence, dec_idx, current_offset, part, dec_result>>
win_vars == <<win_pc, win_events, sequence_length, sequences>>
svc_vars == <<svc_pc, generation_id, _model, _model_path, generated_dir, db_records,
              responses, success>>
pp_vars == <<pp_pc, dir_files, max_files, midi_files, pp_idx, all_sequences>>
smp_vars == <<smp_pc, smp_predictions, inv_temperature, smp_dtype, smp_ret>>
trn_vars == <<training_task, task_pc, task_cancel, should_stop_training,
              current_session, session_mem, session_db, worker, trn_call>>
lst_vars == <<training_listeners, added, removed, stats_no, cb_pc, loop_idx,
              at_start, removed_during, notified, lst_call>>
ctl_vars == <<trn_vars, lst_vars>>
\* the components added after the codec and the generator loop
ext_vars == <<win_vars, svc_vars, pp_vars, smp_vars, ctl_vars>>
vars == <<quant_vars, enc_vars, gen_vars, dec_vars, ext_vars>>

---------------------------------------------------------------------------
(* config.py *)

MAX_PITCHES == 4
VOCAB_SIZE == 130
NUM_DURATION_CLASSES == 8
NUM_TIME_SHIFT_CLASSES == 9

\* ticks per quarter note
TicksPerQuarter == 16 * 25

\* DURATION_MAP, keys 0..7 (tuple index i+1 holds key i), values in ticks:
\* 0.125, 0.25, 0.5, 1.0, 2.0, 4.0, 8.0, 16.0
DURATION_MAP == <<50, 100, 200, 400, 800, 1600, 3200, 6400>>

\* TIME_SHIFT_MAP, keys 0..8, values in ticks:
\* 0.0, 0.0625, 0.125, 0.25, 0.5, 1.0, 2.0, 4.0, 8.0
TIME_SHIFT_MAP == <<0, 25, 50, 100, 200, 400, 800, 1600, 3200>>

---------------------------------------------------------------------------
(* preprocess.py: the quantizer *)

\* boundaries of quantize_duration: 0.125 .. 8.0
duration_boundaries == <<50, 100, 200, 400, 800, 1600, 3200>>

\* boundaries of quantize_time_shift: 0.125 .. 16.0
time_shift_boundaries == <<50, 100, 200, 400, 800, 1600, 3200, 6400>>

\* mutants of the comparison: the 1.5 margin dropped; <= in place of <
BelowMarginNoFactor(v, b) == v < b
BelowMarginInclusive(v, b) == 2 * v <= 3 * b

\* the comparison "v < b * 1.5" of both loops
BelowMargin(v, b) == 2 * v < 3 * b

\* for i, b in enumerate(boundaries): if duration < b * 1.5: return i
\* (i is the 1-based position here, the code's index is i - 1)
RECURSIVE DurationLoop(_, _)
DurationLoop(duration, i) ==
    IF i > Len(duration_boundaries)
    THEN Len(duration_boundaries)
    ELSE IF BelowMargin(duration, duration_boundaries[i])
         THEN i - 1
         ELSE DurationLoop(duration, i + 1)

quantize_duration(duration) == DurationLoop(duration, 1)

\* for i, b in enumerate(boundaries): if time_shift < b * 1.5: return i + 1
RECURSIVE TimeShiftLoop(_, _)
TimeShiftLoop(time_shift, i) ==
    IF i > Len(time_shift_boundaries)
    THEN NUM_TIME_SHIFT_CLASSES - 1
    ELSE IF BelowMargin(time_shift, time_shift_boundaries[i])
         THEN i
         ELSE TimeShiftLoop(time_shift, i + 1)

\* 0.0625 quarter notes
TimeShiftEpsilon == 25

\* mutant: the epsilon test of line 95 left out
quantize_time_shift_NoEpsilon(time_shift) == TimeShiftLoop(time_shift, 1)

quantize_time_shift(time_shift) ==
    IF time_shift < TimeShiftEpsilon
    THEN 0
    ELSE TimeShiftLoop(time_shift, 1)

---------------------------------------------------------------------------
(* Inputs of the quantizer *)

MaxExp == 7
Deltas == {-4, 0, 4}

RECURSIVE Pow2(_)
Pow2(e) == IF e = 0 THEN 1 ELSE 2 * Pow2(e - 1)

\* values around every table value (25 * 2^e ticks) and every class
\* boundary (75 * 2^e ticks), zero and negative values
QuantInputs ==
    {c * Pow2(e) + d : c \in {25, 75}, e \in 0..MaxExp, d \in Deltas}
        \cup {0, -1, -25, -400}

NoCall == [fn |-> "none", arg |-> 0, ret |-> 0, from_class |-> -1]

QuantIdle ==
    /\ q_call = NoCall
    /\ q_prev = NoCall

EncIdle ==
    /\ enc_pc = "idle"
    /\ enc_score = << >>
    /\ enc_failed = FALSE
    /\ all_notes = << >>
    /\ enc_idx = 0
    /\ prev_offset = 0
    /\ events = << >>
    /\ time_shifts = << >>

GenIdle ==
    /\ gen_pc = "idle"
    /\ seed_sequence = << >>
    /\ length = 0
    /\ temperature = 0
    /\ generated = << >>
    /\ gen_i = 0
    /\ input_seq = << >>
    /\ predict_calls = 0
    /\ sampled = << >>
    /\ stop_at = -1

DecIdle ==
    /\ dec_pc = "idle"
    /\ events_sequence = << >>
    /\ dec_idx = 0
    /\ current_offset = 0
    /\ part = << >>
    /\ dec_result = "none"

WinIdle ==
    /\ win_pc = "idle"
    /\ win_events = << >>
    /\ sequence_length = 0
    /\ sequences = << >>

\* generator_controller.py lines 20-21: _model = None, _model_path = None
SvcIdle ==
    /\ svc_pc = "idle"
    /\ generation_id = 0
    /\ _model = "None"
    /\ _model_path = "None"
    /\ generated_dir = {}
    /\ db_records = {}
    /\ responses = << >>
    /\ success = "none"

PpIdle ==
    /\ pp_pc = "idle"
    /\ dir_files = << >>
    /\ max_files = 0
    /\ midi_files = << >>
    /\ pp_idx = 0
    /\ all_sequences = << >>

SmpIdle ==
    /\ smp_pc = "idle"
    /\ smp_predictions = << >>
    /\ inv_temperature = 0
    /\ smp_dtype = "none"
    /\ smp_ret = -1

\* the training runs (tasks, sessions and worker threads are numbered alike)
MaxRuns == 2
Runs == 1..MaxRuns

\* a session number no TrainingSession was created for
NoSession == [status |-> "none", end_time |-> FALSE, current_epoch |-> 0,
              epochs_data |-> << >>]

\* a task whose coroutine has submitted nothing to the executor
NoWorker == [pc |-> "none", epoch |-> 0, total_epochs |-> 0, stop_training |-> FALSE]

NoCtlCall == [fn |-> "none", arg |-> 0, ret |-> "none", no |-> 0]

\* training_controller.py lines 11-14: the module's globals after import
TrnIdle ==
    /\ training_task = 0
    /\ task_pc = [n \in Runs |-> "none"]
    /\ task_cancel = [n \in Runs |-> FALSE]
    /\ should_stop_training = FALSE
    /\ current_session = 0
    /\ session_mem = [n \in Runs |-> NoSession]
    /\ session_db = [n \in Runs |-> NoSession]
    /\ worker = [n \in Runs |-> NoWorker]
    /\ trn_call = NoCtlCall

LstIdle ==
    /\ training_listeners = << >>
    /\ added = << >>
    /\ removed = {}
    /\ stats_no = 0
    /\ cb_pc = "idle"
    /\ loop_idx = 0
    /\ at_start = {}
    /\ removed_during = {}
    /\ notified = << >>
    /\ lst_call = NoCtlCall

CtlIdle == TrnIdle /\ LstIdle

ExtIdle == WinIdle /\ SvcIdle /\ PpIdle /\ SmpIdle /\ CtlIdle

InitQuant ==
    /\ q_call = NoCall
    /\ q_prev = NoCall
    /\ EncIdle /\ GenIdle /\ DecIdle /\ ExtIdle

\* quantize_duration(v) on a continuous value
CallQuantizeDuration ==
    \E v \in QuantInputs :
        /\ q_prev' = q_call
        /\ q_call' = [fn |-> "quantize_duration", arg |-> v,
                      ret |-> quantize_duration(v), from_class |-> -1]
        /\ UNCHANGED <<enc_vars, gen_vars, dec_vars, ext_vars>>

\* quantize_duration(DURATION_MAP[i]): the value the decoder looks up for class i
CallQuantizeDurationOfClass ==
    \E i \in 0..(NUM_DURATION_CLASSES - 1) :
        /\ q_prev' = q_call
        /\ q_call' = [fn |-> "quantize_duration", arg |-> DURATION_MAP[i + 1],
                      ret |-> quantize_duration(DURATION_MAP[i + 1]),
                      from_class |-> i]
        /\ UNCHANGED <<enc_vars, gen_vars, dec_vars, ext_vars>>

\* quantize_time_shift(v) on a continuous value
CallQuantizeTimeShift ==
    \E v \in QuantInputs :
        /\ q_prev' = q_call
        /\ q_call' = [fn |-> "quantize_time_shift", arg |-> v,
                      ret |-> quantize_time_shift(v), from_class |-> -1]
        /\ UNCHANGED <<enc_vars, gen_vars, dec_vars, ext_vars>>

\* quantize_time_shift(TIME_SHIFT_MAP[i])
CallQuantizeTimeShiftOfClass ==
    \E i \in 0..(NUM_TIME_SHIFT_CLASSES - 1) :
        /\ q_prev' = q_call
        /\ q_call' = [fn |-> "quantize_time_shift", arg |-> TIME_SHIFT_MAP[i + 1],
                      ret |-> quantize_time_shift(TIME_SHIFT_MAP[i + 1]),
                      from_class |-> i]
        /\ UNCHANGED <<enc_vars, gen_vars, dec_vars, ext_vars>>

NextQuant ==
    \/ CallQuantizeDuration
    \/ CallQuantizeDurationOfClass
    \/ CallQuantizeTimeShift
    \/ CallQuantizeTimeShiftOfClass

SpecQuant == InitQuant /\ [][NextQuant]_vars

---------------------------------------------------------------------------
(* Claims about the quantizer, checked under SpecQuant *)

IsDurationCall(c) == c.fn = "quantize_duration"
IsTimeShiftCall(c) == c.fn = "quantize_time_shift"

\* C5: round trip of the duration classes: quantizing the table value of
\* class i, for every i in 0..7, returns i.
C5_RoundTripDuration ==
    (IsDurationCall(q_call) /\ q_call.from_class # -1)
        => q_call.ret = q_call.from_class

C5_Witness ==
    /\ IsDurationCall(q_call)
    /\ q_call.from_class = NUM_DURATION_CLASSES - 1
    /\ q_call.arg = 16 * TicksPerQuarter
    /\ q_call.ret = NUM_DURATION_CLASSES - 1

\* C28 as stated: round trip of the time shift classes: quantizing the
\* TIME_SHIFT_MAP value of class i, for every i in 0..8, returns i.
C28_RoundTripTimeShift ==
    (IsTimeShiftCall(q_call) /\ q_call.from_class # -1)
        => q_call.ret = q_call.from_class

\* the smallest class i whose table value satisfies v < table[i] * 1.5,
\* the last class when there is none
SmallestDurationClass(v) ==
    LET S == {i \in 0..(NUM_DURATION_CLASSES - 1) : 2 * v < 3 * DURATION_MAP[i + 1]}
    IN  IF S = {}
        THEN NUM_DURATION_CLASSES - 1
        ELSE CHOOSE i \in S : \A j \in S : i <= j

C7_EpsilonCollapse ==
    (IsTimeShiftCall(q_call) /\ q_call.arg < 25) => q_call.ret = 0

C7_Witness ==
    /\ IsTimeShiftCall(q_prev) /\ q_prev.arg = 21 /\ q_prev.ret = 0
    /\ IsTimeShiftCall(q_call) /\ q_call.arg < 0 /\ q_call.ret = 0

---------------------------------------------------------------------------
(* preprocess.py: the encoder, extract_events_from_midi *)

PAD == 128
REST == 129

\* rests shorter than 0.25 quarter notes are dropped (line 143)
MinRestDuration == 100

\* sorted(xs): ascending insertion sort
RECURSIVE InsertAscending(_, _)
InsertAscending(x, xs) ==
    IF xs = << >> THEN <<x>>
    ELSE IF x < Head(xs) THEN <<x>> \o xs
         ELSE <<Head(xs)>> \o InsertAscending(x, Tail(xs))

RECURSIVE sorted(_)
sorted(xs) ==
    IF xs = << >> THEN << >>
    ELSE InsertAscending(xs[Len(xs)], sorted(SubSeq(xs, 1, Len(xs) - 1)))

\* xs[:n]
Take(xs, n) == SubSeq(xs, 1, IF Len(xs) < n THEN Len(xs) ELSE n)

\* mutant: the chord's pitches kept in the parser's order
ChordPitchesUnsorted(pitches) == Take(pitches, MAX_PITCHES)

\* sorted([p.midi for p in element.pitches])[:MAX_PITCHES] (line 136)
ChordPitches(pitches) == Take(sorted(pitches), MAX_PITCHES)

\* mutant: every rest is kept, whatever its duration
CollectEveryRest(element) ==
    IF element.kind = "Rest"
    THEN <<[pitches |-> << >>, offset |-> element.offset,
            duration |-> element.duration, is_rest |-> TRUE]>>
    ELSE IF element.kind = "Note"
    THEN <<[pitches |-> <<element.pitches[1]>>, offset |-> element.offset,
            duration |-> element.duration, is_rest |-> FALSE]>>
    ELSE <<[pitches |-> Take(sorted(element.pitches), MAX_PITCHES),
            offset |-> element.offset,
            duration |-> element.duration, is_rest |-> FALSE]>>

\* the dict appended to all_notes for one element (lines 128-151);
\* << >> for an element that is skipped
Collect(element) ==
    IF element.kind = "Note"
    THEN <<[pitches |-> <<element.pitches[1]>>, offset |-> element.offset,
            duration |-> element.duration, is_rest |-> FALSE]>>
    ELSE IF element.kind = "Chord"
    THEN <<[pitches |-> ChordPitches(element.pitches), offset |-> element.offset,
            duration |-> element.duration, is_rest |-> FALSE]>>
    ELSE IF element.kind = "Rest" /\ element.duration >= MinRestDuration
    THEN <<[pitches |-> << >>, offset |-> element.offset,
            duration |-> element.duration, is_rest |-> TRUE]>>
    ELSE << >>

RECURSIVE CollectAll(_)
CollectAll(elements) ==
    IF elements = << >> THEN << >>
    ELSE Collect(Head(elements)) \o CollectAll(Tail(elements))

\* mutant: an unstable sort, an occurrence is put before its ties
RECURSIVE InsertByOffsetUnstable(_, _)
InsertByOffsetUnstable(n, ns) ==
    IF ns = << >> THEN <<n>>
    ELSE IF n.offset <= Head(ns).offset THEN <<n>> \o ns
         ELSE <<Head(ns)>> \o InsertByOffsetUnstable(n, Tail(ns))

\* all_notes.sort(key=lambda x: x['offset']): stable, ties keep their order
RECURSIVE InsertByOffset(_, _)
InsertByOffset(n, ns) ==
    IF ns = << >> THEN <<n>>
    ELSE IF n.offset < Head(ns).offset THEN <<n>> \o ns
         ELSE <<Head(ns)>> \o InsertByOffset(n, Tail(ns))

RECURSIVE SortByOffset(_)
SortByOffset(ns) ==
    IF ns = << >> THEN << >>
    ELSE InsertByOffset(ns[Len(ns)], SortByOffset(SubSeq(ns, 1, Len(ns) - 1)))

\* mutant: a rest fills only the first slot with 129
PitchVectorRestFirstSlot(n) ==
    [i \in 1..MAX_PITCHES |->
        IF n.is_rest THEN (IF i = 1 THEN REST ELSE PAD)
        ELSE IF i <= Len(n.pitches) THEN n.pitches[i] ELSE PAD]

\* mutant: the slots after the pitches keep the 0 they were created with
PitchVectorZeroFill(n) ==
    [i \in 1..MAX_PITCHES |->
        IF n.is_rest THEN REST
        ELSE IF i <= Len(n.pitches) THEN n.pitches[i]
        ELSE 0]

\* pitch_vector (lines 159-166): [0] * MAX_PITCHES, then all 129 for a rest,
\* else the first MAX_PITCHES pitches followed by 128 from len(pitches) on
PitchVector(n) ==
    [i \in 1..MAX_PITCHES |->
        IF n.is_rest THEN REST
        ELSE IF i <= Len(n.pitches) THEN n.pitches[i]
        ELSE IF i > Len(n.pitches) THEN PAD
        ELSE 0]

\* mutant: the shift measured from the end of the previous occurrence
NextPrevOffsetEnd(n) == n.offset + n.duration

\* line 173: prev_offset = n['offset']
NextPrevOffset(n) == n.offset

\* event = pitch_vector + [quantize_duration(...), quantize_time_shift(...)]
EncodeEvent(n, time_shift) ==
    PitchVector(n) \o <<quantize_duration(n.duration), quantize_time_shift(time_shift)>>

---------------------------------------------------------------------------
(* Inputs of the encoder *)

MaxElems == 3

NotePitchInputs == {60, 64, 67}
OffsetInputs == {0, TicksPerQuarter}
NoteDurationInputs == {200, TicksPerQuarter}
\* as element.pitches lists them: not sorted, possibly more than MAX_PITCHES
ChordInputs == {<<67, 64>>, <<72, 67, 64, 60, 48>>}
RestDurationInputs == {50, MinRestDuration, TicksPerQuarter}

ScoreElements ==
    {[kind |-> "Note", pitches |-> <<p>>, offset |-> o, duration |-> d] :
        p \in NotePitchInputs, o \in OffsetInputs, d \in NoteDurationInputs}
    \cup {[kind |-> "Chord", pitches |-> c, offset |-> o, duration |-> 200] :
        c \in ChordInputs, o \in OffsetInputs}
    \cup {[kind |-> "Rest", pitches |-> << >>, offset |-> TicksPerQuarter, duration |-> d] :
        d \in RestDurationInputs}

Scores == UNION {[1..n -> ScoreElements] : n \in 0..MaxElems}

InitEnc ==
    /\ QuantIdle /\ GenIdle /\ DecIdle /\ ExtIdle
    /\ enc_pc = "start"
    /\ enc_score \in Scores
    /\ enc_failed = FALSE
    /\ all_notes = << >>
    /\ enc_idx = 0
    /\ prev_offset = 0
    /\ events = << >>
    /\ time_shifts = << >>

\* lines 123-155: parse, collect the occurrences, sort them by offset
CollectAndSort ==
    /\ enc_pc = "start"
    /\ all_notes' = SortByOffset(CollectAll(enc_score))
    /\ enc_idx' = 1
    /\ prev_offset' = 0
    /\ events' = << >>
    /\ time_shifts' = << >>
    /\ enc_pc' = "loop"
    /\ UNCHANGED <<enc_score, enc_failed>>
    /\ UNCHANGED <<quant_vars, gen_vars, dec_vars, ext_vars>>

\* lines 122-123, 176-178: converter.parse raises, the except clause returns []
ParseFails ==
    /\ enc_pc = "start"
    /\ enc_failed' = TRUE
    /\ events' = << >>
    /\ enc_pc' = "done"
    /\ UNCHANGED <<enc_score, all_notes, enc_idx, prev_offset, time_shifts>>
    /\ UNCHANGED <<quant_vars, gen_vars, dec_vars, ext_vars>>

\* lines 156-173: one iteration of the loop over all_notes
EncodeNote ==
    /\ enc_pc = "loop"
    /\ enc_idx <= Len(all_notes)
    /\ LET n == all_notes[enc_idx]
           time_shift == n.offset - prev_offset
       IN  /\ events' = Append(events, EncodeEvent(n, time_shift))
           /\ time_shifts' = Append(time_shifts, time_shift)
           /\ prev_offset' = NextPrevOffset(n)
    /\ enc_idx' = enc_idx + 1
    /\ UNCHANGED <<enc_pc, enc_score, enc_failed, all_notes>>
    /\ UNCHANGED <<quant_vars, gen_vars, dec_vars, ext_vars>>

\* line 175: return events
ReturnEvents ==
    /\ enc_pc = "loop"
    /\ enc_idx > Len(all_notes)
    /\ enc_pc' = "done"
    /\ UNCHANGED <<enc_score, enc_failed, all_notes, enc_idx, prev_offset, events,
                   time_shifts>>
    /\ UNCHANGED <<quant_vars, gen_vars, dec_vars, ext_vars>>

NextEnc ==
    \/ CollectAndSort
    \/ ParseFails
    \/ EncodeNote
    \/ ReturnEvents

SpecEnc == InitEnc /\ [][NextEnc]_vars

---------------------------------------------------------------------------
(* Claims about the encoder, checked under SpecEnc *)

PitchSlots(e) == {e[i] : i \in 1..MAX_PITCHES}
IsRestEvent(e) == PitchSlots(e) = {REST}
EventsSet == {events[k] : k \in 1..Len(events)}

\* C3: every event the encoder produces has either all 4 pitch slots equal
\* to 129 or no slot equal to 129.
C3_RestEncoding ==
    \A e \in EventsSet : PitchSlots(e) = {REST} \/ REST \notin PitchSlots(e)

C3_Witness ==
    /\ enc_pc = "done"
    /\ \E e \in EventsSet : IsRestEvent(e)
    /\ \E e \in EventsSet : REST \notin PitchSlots(e) /\ PAD \in PitchSlots(e)

\* C4: in every sounding event the encoder produces, the valid pitches are in
\* non-decreasing order in the leading slots, and no valid pitch follows a
\* slot holding 128.
C4_PitchOrdering ==
    \A e \in EventsSet :
        ~IsRestEvent(e) =>
            \A i \in 1..MAX_PITCHES : \A j \in (i + 1)..MAX_PITCHES :
                /\ e[i] = PAD => e[j] = PAD
                /\ (e[i] \in 0..127 /\ e[j] \in 0..127) => e[i] <= e[j]

C4_Witness ==
    /\ enc_pc = "done"
    /\ \E e \in EventsSet : SubSeq(e, 1, MAX_PITCHES) = <<64, 67, PAD, PAD>>
    /\ \E e \in EventsSet : SubSeq(e, 1, MAX_PITCHES) = <<48, 60, 64, 67>>

\* the score of C8: three single notes, two of them sharing onset 1.0
C8_Score ==
    << [kind |-> "Note", pitches |-> <<60>>, offset |-> 0, duration |-> 400],
       [kind |-> "Note", pitches |-> <<64>>, offset |-> 400, duration |-> 200],
       [kind |-> "Note", pitches |-> <<67>>, offset |-> 400, duration |-> 200] >>

\* the same music with the two simultaneous notes delivered as one chord
C8_ChordScore ==
    << [kind |-> "Note", pitches |-> <<60>>, offset |-> 0, duration |-> 400],
       [kind |-> "Chord", pitches |-> <<67, 64>>, offset |-> 400, duration |-> 200] >>

Encoded(score) == enc_pc = "done" /\ ~enc_failed /\ enc_score = score

\* C8 as stated: the three occurrences encode to two events, the notes at
\* onset 1.0 merged into one two-pitch event.
C8_AsStated ==
    Encoded(C8_Score) =>
        events = << <<60, PAD, PAD, PAD, quantize_duration(400), quantize_time_shift(0)>>,
                    <<64, 67, PAD, PAD, quantize_duration(200), quantize_time_shift(400)>> >>

\* C8 (amended): the three occurrences encode to three single-pitch events,
\* the third with time shift class 0; the two-event list is what the encoder
\* returns when the notes at onset 1.0 arrive as one chord occurrence.
C8_ThreeEvents ==
    /\ Encoded(C8_Score) =>
          events = << <<60, PAD, PAD, PAD, 3, 0>>,
                      <<64, PAD, PAD, PAD, 2, 4>>,
                      <<67, PAD, PAD, PAD, 2, 0>> >>
    /\ Encoded(C8_ChordScore) =>
          events = << <<60, PAD, PAD, PAD, 3, 0>>,
                      <<64, 67, PAD, PAD, 2, 4>> >>

C8_Witness == Encoded(C8_Score) /\ Len(events) = 3

RECURSIVE SumSeq(_)
SumSeq(xs) == IF xs = << >> THEN 0 ELSE Head(xs) + SumSeq(Tail(xs))

\* C20: the time shift quantized for each emitted event is its occurrence's
\* offset minus the offset of the previously emitted occurrence (0.0 for the
\* first), never the previous offset plus duration; so the unquantized
\* shifts of the first k events sum to the offset of the k-th occurrence.
C20_OnsetToOnset ==
    enc_pc \in {"loop", "done"} =>
        /\ Len(time_shifts) = Len(events)
        /\ \A k \in 1..Len(events) :
              /\ time_shifts[k] = all_notes[k].offset
                                    - (IF k = 1 THEN 0 ELSE all_notes[k - 1].offset)
              /\ events[k][MAX_PITCHES + 2] = quantize_time_shift(time_shifts[k])
              /\ SumSeq(SubSeq(time_shifts, 1, k)) = all_notes[k].offset

\* a note of duration 1.0 at offset 0 is followed by occurrences at offset 1.0:
\* the shifts are 0, 1.0 and 0, not 0, 0 and -0.5
C20_Witness ==
    /\ Encoded(C8_Score)
    /\ time_shifts = <<0, TicksPerQuarter, 0>>

\* the elements of the score the encoder keeps: notes, chords, and rests of
\* at least 0.25 quarter notes
Retained ==
    {i \in 1..Len(enc_score) :
        enc_score[i].kind = "Rest" => 4 * enc_score[i].duration >= TicksPerQuarter}

\* the largest offset of a retained element, 0 when there is none
LastRetainedOffset ==
    IF Retained = {} THEN 0
    ELSE CHOOSE o \in {enc_score[i].offset : i \in Retained} :
            \A i \in Retained : enc_score[i].offset <= o

\* C21: a rest shorter than 0.25 quarter notes produces no event and does not
\* change the time shift base of later events (the shifts sum to the last
\* retained onset), while every note, every chord and every rest of duration
\* >= 0.25 produces exactly one event; the number of events equals the
\* number of retained occurrences.
C21_ShortRestFilter ==
    (enc_pc = "done" /\ ~enc_failed) =>
        /\ Len(events) = Cardinality(Retained)
        /\ Len(all_notes) = Cardinality(Retained)
        /\ \A k \in 1..Len(all_notes) :
              all_notes[k].is_rest => 4 * all_notes[k].duration >= TicksPerQuarter
        /\ Cardinality({k \in 1..Len(events) : IsRestEvent(events[k])})
              = Cardinality({i \in Retained : enc_score[i].kind = "Rest"})
        /\ SumSeq(time_shifts) = LastRetainedOffset

\* a rest of 0.125 at offset 1.0 between two notes at offset 0: two events,
\* both with time shift 0
C21_Witness ==
    /\ enc_pc = "done" /\ ~enc_failed
    /\ Len(enc_score) = 3
    /\ enc_score[2].kind = "Rest" /\ enc_score[2].duration = 50
    /\ enc_score[1].kind = "Note" /\ enc_score[1].offset = 0
    /\ enc_score[3].kind = "Chord" /\ enc_score[3].offset = 0
    /\ Len(events) = 2
    /\ time_shifts = <<0, 0>>

\* the min(4, k) lowest of the k pitches of a chord
LowestPitches(pitches) ==
    LET S == {pitches[i] : i \in 1..Len(pitches)}
        m == IF Cardinality(S) < 4 THEN Cardinality(S) ELSE 4
    IN  CHOOSE L \in SUBSET S :
            /\ Cardinality(L) = m
            /\ \A a \in L : \A b \in S \ L : a < b

\* the event holds the lowest pitches in ascending order, then 128
IsTruncationOf(e, pitches) ==
    LET L == LowestPitches(pitches)
        k == Cardinality(L)
    IN  /\ {e[i] : i \in 1..k} = L
        /\ \A i \in 1..(k - 1) : e[i] < e[i + 1]
        /\ \A i \in (k + 1)..4 : e[i] = 128

\* C22: a chord with more than 4 pitches is encoded as the event holding its
\* 4 lowest pitches in ascending order, without an error; a chord with
\* k <= 4 pitches is encoded with those k pitches followed by 4-k slots
\* equal to 128.
C22_ChordTruncation ==
    (enc_pc = "done" /\ ~enc_failed) =>
        /\ Len(events) = Len(all_notes)
        /\ \A i \in 1..Len(enc_score) :
              enc_score[i].kind = "Chord" =>
                  \E k \in 1..Len(events) :
                      /\ all_notes[k].offset = enc_score[i].offset
                      /\ IsTruncationOf(events[k], enc_score[i].pitches)
        /\ \A k \in 1..Len(events) :
              Len(all_notes[k].pitches) > 1 =>
                  \E i \in 1..Len(enc_score) :
                      /\ enc_score[i].kind = "Chord"
                      /\ IsTruncationOf(events[k], enc_score[i].pitches)

\* the chord of 5 pitches and the chord of 2 pitches were both encoded
C22_Witness ==
    /\ enc_pc = "done" /\ ~enc_failed
    /\ enc_score = << [kind |-> "Chord", pitches |-> <<72, 67, 64, 60, 48>>,
                       offset |-> 0, duration |-> 200],
                      [kind |-> "Chord", pitches |-> <<67, 64>>,
                       offset |-> TicksPerQuarter, duration |-> 200] >>
    /\ events[1] = <<48, 60, 64, 67, 2, 0>>
    /\ events[2] = <<64, 67, 128, 128, 2, 4>>

---------------------------------------------------------------------------
(* generate.py: the generator loop, generate_sequence *)

\* create_random_seed_sequence(32), generator_controller.py line 100
SEED_LEN == 32

\* generated[-31:]
CONTEXT_LEN == 31

\* the output heads of the model: 4 pitch slots, duration, time shift
NUM_HEADS == MAX_PITCHES + 2

\* mutant: the sampled index used as it is
ClipNone(x, lo, hi) == x

\* np.clip(x, lo, hi)
Clip(x, lo, hi) == IF x < lo THEN lo ELSE IF x > hi THEN hi ELSE x

\* the upper clip bound of each head (lines 107, 111, 113)
HeadMax(h) ==
    IF h <= MAX_PITCHES THEN REST
    ELSE IF h = MAX_PITCHES + 1 THEN NUM_DURATION_CLASSES - 1
    ELSE NUM_TIME_SHIFT_CLASSES - 1

\* the event built from the 6 sampled indices (lines 104-116)
SampledEvent(raw) == [h \in 1..NUM_HEADS |-> Clip(raw[h], 0, HeadMax(h))]

\* mutant: the first n events, a context that never slides
FirstN(xs, n) == IF Len(xs) <= n THEN xs ELSE SubSeq(xs, 1, n)

\* xs[-n:]
LastN(xs, n) == IF Len(xs) <= n THEN xs ELSE SubSeq(xs, Len(xs) - n + 1, Len(xs))

\* mutant: a buffer of fixed length, the oldest event dropped
AppendEventSliding(gen, event) == Append(Tail(gen), event)

\* line 118: generated.append(event)
AppendEvent(gen, event) == Append(gen, event)

\* range(length - len(seed_sequence)) still has an element for i
LoopContinues == gen_i < length - Len(seed_sequence)

---------------------------------------------------------------------------
(* Inputs of the generator *)

MaxNew == 3
MaxShort == 2
WideBy == 2

\* seeds create_random_seed_sequence(32) can return: pitch in 50..89, the
\* other slots 128 or a pitch in 50..89, any duration and time shift class
Seeds ==
    { [i \in 1..SEED_LEN |-> <<50 + i, PAD, PAD, PAD, i % NUM_DURATION_CLASSES,
                               i % NUM_TIME_SHIFT_CLASSES>>],
      [i \in 1..SEED_LEN |-> <<60, 64, PAD, 70, 3, 0>>] }

LengthInputs == (SEED_LEN - MaxShort)..(SEED_LEN + MaxNew)

\* temperature in tenths: -0.8, 0.0 and the default 0.8
TemperatureInputs == {-8, 0, 8}

\* the lengths of the 6 vectors model.predict returns: those of the trained
\* model, and those of a model with larger output layers
ExactSizes == <<VOCAB_SIZE, VOCAB_SIZE, VOCAB_SIZE, VOCAB_SIZE,
                NUM_DURATION_CLASSES, NUM_TIME_SHIFT_CLASSES>>
WideSizes == [h \in 1..NUM_HEADS |-> ExactSizes[h] + WideBy]
PredictorSizes == {ExactSizes, WideSizes}

\* np.random.choice(len(predictions), p=...) returns an index below
\* len(predictions); a few index tuples and the largest one
BaseSamples ==
    { <<60, 64, 128, 128, 3, 0>>,
      <<129, 129, 129, 129, 2, 4>>,
      <<129, 60, 128, 0, 7, 8>> }
RawSamples(sizes) ==
    {t \in BaseSamples : \A h \in 1..NUM_HEADS : t[h] < sizes[h]}
        \cup {[h \in 1..NUM_HEADS |-> sizes[h] - 1]}

InitGen ==
    /\ QuantIdle /\ EncIdle /\ DecIdle /\ ExtIdle
    /\ gen_pc = "start"
    /\ seed_sequence \in Seeds
    /\ length \in LengthInputs
    /\ temperature \in TemperatureInputs
    /\ generated = << >>
    /\ gen_i = 0
    /\ input_seq = << >>
    /\ predict_calls = 0
    /\ sampled = << >>
    /\ stop_at = -1

\* line 95: generated = [list(event) for event in seed_sequence]
CopySeed ==
    /\ gen_pc = "start"
    /\ generated' = seed_sequence
    /\ gen_i' = 0
    /\ gen_pc' = "loop"
    /\ UNCHANGED <<seed_sequence, length, temperature, input_seq, predict_calls, sampled,
                   stop_at>>
    /\ UNCHANGED <<quant_vars, enc_vars, dec_vars, ext_vars>>

\* lines 99-118: one iteration: predict on the context, sample the 6 heads,
\* clip, append the event
GenerateStep ==
    /\ gen_pc = "loop"
    /\ LoopContinues
    /\ temperature # 0
    /\ \E sizes \in PredictorSizes : \E raw \in RawSamples(sizes) :
          /\ sampled' = raw
          /\ generated' = AppendEvent(generated, SampledEvent(raw))
    /\ input_seq' = LastN(generated, CONTEXT_LEN)
    /\ predict_calls' = predict_calls + 1
    /\ gen_i' = gen_i + 1
    /\ UNCHANGED <<gen_pc, seed_sequence, length, temperature, stop_at>>
    /\ UNCHANGED <<quant_vars, enc_vars, dec_vars, ext_vars>>

\* line 102: model.predict raises; the exception leaves generate_sequence
PredictorRaises ==
    /\ gen_pc = "loop"
    /\ LoopContinues
    /\ input_seq' = LastN(generated, CONTEXT_LEN)
    /\ predict_calls' = predict_calls + 1
    /\ gen_pc' = "raised"
    /\ UNCHANGED <<seed_sequence, length, temperature, generated, gen_i, sampled, stop_at>>
    /\ UNCHANGED <<quant_vars, enc_vars, dec_vars, ext_vars>>

\* lines 64-66: np.random.choice raises ValueError on probabilities that are
\* not numbers: always with temperature 0 (division by zero), and with any
\* temperature when the predictor returned invalid numbers.  With a negative
\* temperature of moderate size the exponentials are finite and an index is
\* sampled (GenerateStep).
SampleRaises ==
    /\ gen_pc = "loop"
    /\ LoopContinues
    /\ \E valid \in BOOLEAN : temperature = 0 \/ ~valid
    /\ input_seq' = LastN(generated, CONTEXT_LEN)
    /\ predict_calls' = predict_calls + 1
    /\ gen_pc' = "raised"
    /\ UNCHANGED <<seed_sequence, length, temperature, generated, gen_i, sampled, stop_at>>
    /\ UNCHANGED <<quant_vars, enc_vars, dec_vars, ext_vars>>

\* the environment asks the running generation to stop; generate_sequence
\* has no parameter for such a signal and reads none
RequestStop ==
    /\ gen_pc = "loop"
    /\ LoopContinues
    /\ stop_at = -1
    /\ stop_at' = gen_i
    /\ UNCHANGED <<gen_pc, seed_sequence, length, temperature, generated, gen_i,
                   input_seq, predict_calls, sampled>>
    /\ UNCHANGED <<quant_vars, enc_vars, dec_vars, ext_vars>>

\* line 123: return generated
ReturnGenerated ==
    /\ gen_pc = "loop"
    /\ ~LoopContinues
    /\ gen_pc' = "returned"
    /\ UNCHANGED <<seed_sequence, length, temperature, generated, gen_i,
                   input_seq, predict_calls, sampled, stop_at>>
    /\ UNCHANGED <<quant_vars, enc_vars, dec_vars, ext_vars>>

NextGen ==
    \/ CopySeed
    \/ GenerateStep
    \/ PredictorRaises
    \/ SampleRaises
    \/ RequestStop
    \/ ReturnGenerated

SpecGen == InitGen /\ [][NextGen]_vars

---------------------------------------------------------------------------
(* Claims about the generator loop, checked under SpecGen *)

\* C1 as stated: the list generate_sequence returns for a seed of length 32
\* has exactly target_length elements.
C1_LengthContract ==
    (gen_pc = "returned" /\ Len(seed_sequence) = SEED_LEN)
        => Len(generated) = length

\* the events appended after the seed prefix
AppendedEvents ==
    {generated[k] : k \in (Len(seed_sequence) + 1)..Len(generated)}

\* C2: every event appended by generate_sequence has its 4 pitch slots in
\* 0..129, its duration class in 0..7 and its time shift class in 0..8,
\* whatever the lengths of the predictor's vectors and the sampled indices.
C2_AppendedInRange ==
    gen_pc \in {"loop", "returned", "raised"} =>
        \A e \in AppendedEvents :
            /\ \A j \in 1..MAX_PITCHES : e[j] \in 0..129
            /\ e[MAX_PITCHES + 1] \in 0..(NUM_DURATION_CLASSES - 1)
            /\ e[MAX_PITCHES + 2] \in 0..(NUM_TIME_SHIFT_CLASSES - 1)

\* an index beyond every table was sampled on all 6 heads and was clipped
C2_Witness ==
    /\ gen_pc = "returned"
    /\ Len(generated) > Len(seed_sequence)
    /\ sampled[1] > 129 /\ sampled[MAX_PITCHES + 1] > 7 /\ sampled[MAX_PITCHES + 2] > 8
    /\ generated[Len(generated)] = <<129, 129, 129, 129, 7, 8>>

\* C14 as stated: the loop checks an external stop signal once per produced
\* event, and when the signal is set it terminates early and returns the
\* events generated so far: the seed prefix and the events appended before
\* the signal, at most one more, a sequence shorter than target_length.
C14_CooperativeStop ==
    (gen_pc = "returned" /\ stop_at >= 0) =>
        /\ Len(generated) <= Len(seed_sequence) + stop_at + 1
        /\ (stop_at + 1 < length - Len(seed_sequence) => Len(generated) < length)

\* a rest (all 4 pitch slots 129), or 1 to 4 pitches 0..127 in ascending order
\* in the leading slots and 128 in all the remaining slots
WellFormedEvent(e) ==
    \/ \A j \in 1..MAX_PITCHES : e[j] = REST
    \/ \E n \in 1..MAX_PITCHES :
          /\ \A j \in 1..n : e[j] \in 0..127
          /\ \A j \in 1..(n - 1) : e[j] <= e[j + 1]
          /\ \A j \in (n + 1)..MAX_PITCHES : e[j] = PAD

\* C15 as stated: every event of the sequence generate_sequence returns, seed
\* events and sampled events alike, is either a rest or a sounding event.
C15_WellFormedPipeline ==
    gen_pc = "returned" =>
        \A k \in 1..Len(generated) : WellFormedEvent(generated[k])

\* the events the predictor's context is taken from: the sequence as it was
\* before the event of the last step was appended
ContextBase ==
    IF gen_pc = "raised" THEN generated
    ELSE SubSeq(generated, 1, Len(generated) - 1)

\* C17: at every step the predictor receives exactly the last 31 events of
\* the sequence generated so far (all of them when fewer than 31 exist), in
\* order, so the event appended at step k is in the context of step k+1.
C17_SlidingContext ==
    predict_calls > 0 =>
        LET n == Len(ContextBase)
            m == IF n < 31 THEN n ELSE 31
        IN  /\ Len(input_seq) = m
            /\ \A j \in 1..m : input_seq[j] = ContextBase[n - m + j]

\* the second step's context starts at the third seed event and ends with
\* the event the first step appended
C17_Witness ==
    /\ gen_pc = "loop"
    /\ predict_calls = 2
    /\ Len(generated) = SEED_LEN + 2
    /\ input_seq[1] = seed_sequence[3]
    /\ input_seq[1] # seed_sequence[1]
    /\ input_seq[31] = generated[SEED_LEN + 1]

\* C18: the first len(seed) events returned equal the seed events in order, an
\* event once appended is never modified or removed by later steps, and the
\* caller's seed array is not mutated.
C18_SeedPrefixAppendOnly ==
    /\ [](gen_pc \in {"loop", "returned", "raised"} =>
            /\ Len(generated) >= Len(seed_sequence)
            /\ SubSeq(generated, 1, Len(seed_sequence)) = seed_sequence)
    /\ [][/\ seed_sequence' = seed_sequence
           /\ gen_pc # "start" =>
                 /\ Len(generated') >= Len(generated)
                 /\ SubSeq(generated', 1, Len(generated)) = generated]_vars

\* a sequence with 2 appended events was returned with the seed in front
C18_Witness ==
    /\ gen_pc = "returned"
    /\ Len(generated) = SEED_LEN + 2
    /\ generated[SEED_LEN] = seed_sequence[SEED_LEN]
    /\ generated[SEED_LEN + 1] # generated[SEED_LEN + 2]

---------------------------------------------------------------------------
(* generate.py: the decoder, sequence_to_midi *)

\* TIME_SHIFT_MAP.get(time_shift_class, 0.0)
TimeShiftOf(time_shift_class) ==
    IF time_shift_class \in 0..(Len(TIME_SHIFT_MAP) - 1)
    THEN TIME_SHIFT_MAP[time_shift_class + 1]
    ELSE 0

\* DURATION_MAP.get(duration_class, 0.5)
DurationOf(duration_class) ==
    IF duration_class \in 0..(Len(DURATION_MAP) - 1)
    THEN DURATION_MAP[duration_class + 1]
    ELSE 200

\* mutant: the padding code 128 counted as a pitch
RECURSIVE ValidPitchesWithPad(_)
ValidPitchesWithPad(pitches) ==
    IF pitches = << >> THEN << >>
    ELSE (IF Head(pitches) \in 0..128 THEN <<Head(pitches)>> ELSE << >>)
            \o ValidPitchesWithPad(Tail(pitches))

\* [int(p) for p in pitches if 0 <= int(p) <= 127]
RECURSIVE ValidPitches(_)
ValidPitches(pitches) ==
    IF pitches = << >> THEN << >>
    ELSE (IF Head(pitches) \in 0..127 THEN <<Head(pitches)>> ELSE << >>)
            \o ValidPitches(Tail(pitches))

Element(kind, pitches, duration, offset) ==
    [kind |-> kind, pitches |-> pitches, duration |-> duration, offset |-> offset]

\* mutant: the element is placed before the time shift is applied
OnsetUnshifted(offset, time_shift) == offset

\* line 174: current_offset += time_shift, before the element is placed
Onset(offset, time_shift) == offset + time_shift

\* mutant: every event without a valid pitch is decoded as a rest
DecodeElementsRestAlways(event, offset) ==
    LET duration == DurationOf(event[MAX_PITCHES + 1])
        valid_pitches == ValidPitches(SubSeq(event, 1, MAX_PITCHES))
    IN  IF Len(valid_pitches) = 0
        THEN <<Element("Rest", << >>, duration, offset)>>
        ELSE IF Len(valid_pitches) = 1
        THEN <<Element("Note", valid_pitches, duration, offset)>>
        ELSE <<Element("Chord", valid_pitches, duration, offset)>>

\* lines 176-193: what one event appends to the part, given the offset the
\* element is assigned (r.offset / n.offset / c.offset = current_offset)
DecodeElements(event, offset) ==
    LET duration == DurationOf(event[MAX_PITCHES + 1])
        valid_pitches == ValidPitches(SubSeq(event, 1, MAX_PITCHES))
    IN  IF Len(valid_pitches) = 0
        THEN (IF event[1] = REST
              THEN <<Element("Rest", << >>, duration, offset)>>
              ELSE << >>)
        ELSE IF Len(valid_pitches) = 1
        THEN <<Element("Note", valid_pitches, duration, offset)>>
        ELSE <<Element("Chord", valid_pitches, duration, offset)>>

---------------------------------------------------------------------------
(* Inputs of the decoder *)

MaxEvents == 3

\* events as the encoder, the windower's padding and the generator produce
\* them, and one whose classes are outside both tables
DecEvents ==
    { <<60, PAD, PAD, PAD, 3, 0>>,
      <<64, 67, PAD, PAD, 2, 4>>,
      <<PAD, PAD, PAD, PAD, 0, 0>>,
      <<PAD, PAD, PAD, PAD, 3, 5>>,
      <<REST, REST, REST, REST, 2, 4>>,
      <<REST, 60, PAD, 0, 7, 8>>,
      <<PAD, REST, REST, REST, 1, 1>>,
      <<PAD, PAD, PAD, PAD, 8, 9>> }

DecInputs == UNION {[1..n -> DecEvents] : n \in 0..MaxEvents}

\* the state at line 168, before the first event
InitDec ==
    /\ QuantIdle /\ EncIdle /\ GenIdle /\ ExtIdle
    /\ dec_pc = "loop"
    /\ events_sequence \in DecInputs
    /\ dec_idx = 1
    /\ current_offset = 0
    /\ part = << >>
    /\ dec_result = "none"

\* lines 168-193: one iteration of the loop over events_sequence
DecodeEvent ==
    /\ dec_pc = "loop"
    /\ dec_idx <= Len(events_sequence)
    /\ LET event == events_sequence[dec_idx]
           time_shift == TimeShiftOf(event[MAX_PITCHES + 2])
       IN  /\ current_offset' = Onset(current_offset, time_shift)
           /\ part' = part \o DecodeElements(event, Onset(current_offset, time_shift))
    /\ dec_idx' = dec_idx + 1
    /\ UNCHANGED <<dec_pc, events_sequence, dec_result>>
    /\ UNCHANGED <<quant_vars, enc_vars, gen_vars, ext_vars>>

\* lines 195-201: the score is written, True is returned
WriteMidi ==
    /\ dec_pc = "loop"
    /\ dec_idx > Len(events_sequence)
    /\ dec_pc' = "done"
    /\ dec_result' = "True"
    /\ UNCHANGED <<events_sequence, dec_idx, current_offset, part>>
    /\ UNCHANGED <<quant_vars, enc_vars, gen_vars, ext_vars>>

\* lines 197-198, 203-205: makedirs or score.write raises, False is returned
WriteMidiFails ==
    /\ dec_pc = "loop"
    /\ dec_idx > Len(events_sequence)
    /\ dec_pc' = "done"
    /\ dec_result' = "False"
    /\ UNCHANGED <<events_sequence, dec_idx, current_offset, part>>
    /\ UNCHANGED <<quant_vars, enc_vars, gen_vars, ext_vars>>

NextDec ==
    \/ DecodeEvent
    \/ WriteMidi
    \/ WriteMidiFails

SpecDec == InitDec /\ [][NextDec]_vars

---------------------------------------------------------------------------
(* Claims about the decoder, checked under SpecDec *)

\* the pair of events of C9
C9_Events ==
    << <<60, PAD, PAD, PAD, quantize_duration(400), quantize_time_shift(0)>>,
       <<64, 67, PAD, PAD, quantize_duration(200), quantize_time_shift(400)>> >>

\* C9 as stated: the pair decodes to the single note 60 at offset 0 with
\* duration 1.0 and the chord {64, 67} at offset 1.0 with duration 0.5.
C9_DecodePair ==
    (dec_pc = "done" /\ events_sequence = C9_Events) =>
        part = << Element("Note", <<60>>, 400, 0),
                  Element("Chord", <<64, 67>>, 200, 400) >>

IsPadding(event) == \A j \in 1..MAX_PITCHES : event[j] = PAD

\* C10: decoding an event whose 4 pitch slots are all 128 appends nothing to
\* the part and advances current_offset by exactly the TIME_SHIFT_MAP value
\* of the event's time shift class (by nothing for a class outside the table).
C10_PaddingStep ==
    [][ (/\ dec_pc = "loop"
         /\ dec_idx <= Len(events_sequence)
         /\ dec_idx' = dec_idx + 1
         /\ IsPadding(events_sequence[dec_idx]))
        => (/\ part' = part
            /\ LET c == events_sequence[dec_idx][MAX_PITCHES + 2]
               IN  current_offset' = current_offset +
                       (IF c \in 0..(NUM_TIME_SHIFT_CLASSES - 1)
                        THEN TIME_SHIFT_MAP[c + 1] ELSE 0)) ]_vars

\* a padding event with time shift class 5 was decoded after a note
C10_Witness ==
    /\ dec_pc = "done"
    /\ Len(events_sequence) = 2
    /\ events_sequence[1] = <<60, PAD, PAD, PAD, 3, 0>>
    /\ events_sequence[2] = <<PAD, PAD, PAD, PAD, 3, 5>>
    /\ Len(part) = 1
    /\ current_offset = TicksPerQuarter

\* the elements the last step appended to the part
Emitted == SubSeq(part', Len(part) + 1, Len(part'))

\* the slots of an event that hold a pitch 0..127
ValidSlots(event) == {j \in 1..4 : event[j] \in 0..127}

TableShift(c) == IF c \in 0..8 THEN TIME_SHIFT_MAP[c + 1] ELSE 0

\* the sum of the table values of the time shift classes of events 1..k
RECURSIVE CumulativeShift(_)
CumulativeShift(k) ==
    IF k = 0 THEN 0
    ELSE CumulativeShift(k - 1) + TableShift(events_sequence[k][6])

\* C24: the onset assigned to the element emitted for the k-th event equals
\* the sum of the TIME_SHIFT_MAP values of the time shift classes of events
\* 1..k (events that emit nothing included); durations never advance
\* current_offset, so onsets are non-decreasing along the event sequence and
\* an event with time shift class 0 has the same onset as its predecessor.
C24_Onsets ==
    /\ [](dec_pc \in {"loop", "done"} =>
            /\ current_offset = CumulativeShift(dec_idx - 1)
            /\ \A a \in 1..Len(part) : \A b \in a..Len(part) :
                  part[a].offset <= part[b].offset)
    /\ [][ (dec_pc = "loop" /\ dec_idx <= Len(events_sequence) /\ dec_idx' = dec_idx + 1)
            => /\ \A k \in 1..Len(Emitted) :
                     Emitted[k].offset = CumulativeShift(dec_idx)
               /\ events_sequence[dec_idx][6] = 0 => current_offset' = current_offset ]_vars

\* a note of duration 1.0 with class 0, a chord with class 4 and a padding
\* event with class 5: onsets 0 and 0.5, and current_offset 1.5 at the end
C24_Witness ==
    /\ dec_pc = "done"
    /\ events_sequence = << <<60, PAD, PAD, PAD, 3, 0>>,
                            <<64, 67, PAD, PAD, 2, 4>>,
                            <<PAD, PAD, PAD, PAD, 3, 5>> >>
    /\ Len(part) = 2
    /\ part[1].offset = 0
    /\ part[2].offset = 200
    /\ current_offset = 600

---------------------------------------------------------------------------
(* preprocess.py: the windower, extract_sequences *)

\* [[128] * MAX_PITCHES + [0, 0]] (line 198)
PaddingEvent == <<PAD, PAD, PAD, PAD, 0, 0>>

\* mutant: windows that do not overlap (stride L in place of 1)
SlidingWindowsStrided(evs, L) ==
    [i \in 1..((Len(evs) - L) \div L + 1) |->
        SubSeq(evs, (i - 1) * L + 1, (i - 1) * L + L)]

\* lines 201-202: events[i:i+L] for i in range(len(events) - L + 1)
SlidingWindows(evs, L) ==
    [i \in 1..(Len(evs) - L + 1) |-> SubSeq(evs, i, i + L - 1)]

\* mutant: a short stream is returned as it is, without padding
PaddedWindowNoPadding(evs, L) == evs

\* line 198: events + [padding event] * (L - len(events))
PaddedWindow(evs, L) == evs \o [k \in 1..(L - Len(evs)) |-> PaddingEvent]

\* lines 195-204
extract_sequences(evs, L) ==
    IF Len(evs) < L
    THEN <<PaddedWindow(evs, L)>>
    ELSE SlidingWindows(evs, L)

---------------------------------------------------------------------------
(* Inputs of the windower *)

MaxStream == 5
MaxWindow == 4

\* event streams as the encoder returns them
StreamEvents == { <<60, PAD, PAD, PAD, 3, 0>>, <<64, 67, PAD, PAD, 2, 4>>,
                  <<REST, REST, REST, REST, 3, 4>> }
Streams == UNION {[1..n -> StreamEvents] : n \in 0..MaxStream}

InitWin ==
    /\ QuantIdle /\ EncIdle /\ GenIdle /\ DecIdle
    /\ SvcIdle /\ PpIdle /\ SmpIdle /\ CtlIdle
    /\ win_pc = "call"
    /\ win_events \in Streams
    /\ sequence_length \in 1..MaxWindow
    /\ sequences = << >>

\* extract_sequences(events, sequence_length)
ExtractSequences ==
    /\ win_pc = "call"
    /\ sequences' = extract_sequences(win_events, sequence_length)
    /\ win_pc' = "done"
    /\ UNCHANGED <<win_events, sequence_length>>
    /\ UNCHANGED <<quant_vars, enc_vars, gen_vars, dec_vars, svc_vars, pp_vars, smp_vars, ctl_vars>>

NextWin == ExtractSequences

SpecWin == InitWin /\ [][NextWin]_vars

---------------------------------------------------------------------------
(* Claims about the windower, checked under SpecWin *)

\* C19: for a stream of n events and window length L, extract_sequences
\* returns n-L+1 windows, window i being events[i..i+L-1], when n >= L, and
\* one window made of the n events followed by L-n padding events
\* [128,128,128,128,0,0] when n < L; every window has exactly L events.
C19_Windowing ==
    win_pc = "done" =>
        LET n == Len(win_events)
            L == sequence_length
        IN  /\ \A w \in 1..Len(sequences) : Len(sequences[w]) = L
            /\ n >= L =>
                /\ Len(sequences) = n - L + 1
                /\ \A w \in 1..Len(sequences) : \A j \in 1..L :
                       sequences[w][j] = win_events[w + j - 1]
            /\ n < L =>
                /\ Len(sequences) = 1
                /\ \A j \in 1..n : sequences[1][j] = win_events[j]
                /\ \A j \in (n + 1)..L : sequences[1][j] = <<128, 128, 128, 128, 0, 0>>

\* both cases happened: a stream longer than the window, and a short one
C19_Witness ==
    /\ win_pc = "done"
    /\ Len(win_events) = 4
    /\ sequence_length = 2
    /\ Len(sequences) = 3
    /\ sequences[2] = SubSeq(win_events, 2, 3)

C19_WitnessPadded ==
    /\ win_pc = "done"
    /\ Len(win_events) = 1
    /\ sequence_length = 3
    /\ sequences = << <<win_events[1], PaddingEvent, PaddingEvent>> >>

---------------------------------------------------------------------------
(* generator_controller.py: the generation service, generate_music.  The   *)
(* route handler calls it without awaiting anything, so requests run one   *)
(* after the other.                                                        *)

MaxRequests == 2

\* request.num_events: one value below the seed length and one above it
SvcLengthInputs == {SEED_LEN - MaxShort, SEED_LEN + MaxNew - 1}

\* generate_music can be called: no call is in progress
Ready == svc_pc \in {"idle", "responded", "failed"}

\* mutant: the steps after line 101 run whether generate_sequence returned
\* or raised
SequenceReturnedOrRaised == gen_pc \in {"returned", "raised"}

\* line 101 returned a sequence, so the statements after it run
SequenceReturned == gen_pc = "returned"

\* mutant: the value sequence_to_midi returned is not looked at
AfterMidiIgnored(ok) == "midi"

\* lines 109-110: if not success: raise RuntimeError
AfterMidi(ok) == IF ok = "True" THEN "midi" ELSE "failed"

\* lines 93-97 and get_model lines 30-33: find_latest_model returns None and
\* get_model raises RuntimeError
GetModelNotFound ==
    /\ Ready
    /\ generation_id < MaxRequests
    /\ _model = "None"
    /\ generation_id' = generation_id + 1
    /\ _model_path' = "None"
    /\ svc_pc' = "failed"
    /\ responses' = Append(responses, "RuntimeError")
    /\ UNCHANGED <<_model, generated_dir, db_records, success>>
    /\ UNCHANGED <<quant_vars, enc_vars, gen_vars, dec_vars, win_vars, pp_vars, smp_vars, ctl_vars>>

\* get_model lines 30-36: a model file is found, load_model returns None and
\* get_model raises RuntimeError
GetModelLoadFails ==
    /\ Ready
    /\ generation_id < MaxRequests
    /\ _model = "None"
    /\ generation_id' = generation_id + 1
    /\ _model_path' = "path"
    /\ svc_pc' = "failed"
    /\ responses' = Append(responses, "RuntimeError")
    /\ UNCHANGED <<_model, generated_dir, db_records, success>>
    /\ UNCHANGED <<quant_vars, enc_vars, gen_vars, dec_vars, win_vars, pp_vars, smp_vars, ctl_vars>>

\* lines 93-101: get_model returns the cached model, loading it when there is
\* none, and generate_sequence is called with a new random seed and the
\* request's num_events and temperature as they are
StartGeneration ==
    /\ Ready
    /\ generation_id < MaxRequests
    /\ generation_id' = generation_id + 1
    /\ _model' = "loaded"
    /\ _model_path' = IF _model = "None" THEN "path" ELSE _model_path
    /\ svc_pc' = "generating"
    /\ seed_sequence' \in Seeds
    /\ length' \in SvcLengthInputs
    /\ temperature' \in TemperatureInputs
    /\ gen_pc' = "start"
    /\ generated' = << >>
    /\ gen_i' = 0
    /\ input_seq' = << >>
    /\ predict_calls' = 0
    /\ sampled' = << >>
    /\ stop_at' = -1
    /\ success' = "none"
    /\ UNCHANGED <<generated_dir, db_records, responses>>
    /\ UNCHANGED <<quant_vars, enc_vars, dec_vars, win_vars, pp_vars, smp_vars, ctl_vars>>

\* line 101: generate_music has no try / except, an exception raised in
\* generate_sequence leaves generate_music
PropagateFailure ==
    /\ svc_pc = "generating"
    /\ gen_pc = "raised"
    /\ svc_pc' = "failed"
    /\ responses' = Append(responses, "Exception")
    /\ UNCHANGED <<generation_id, _model, _model_path, generated_dir, db_records, success>>
    /\ UNCHANGED <<quant_vars, enc_vars, gen_vars, dec_vars, win_vars, pp_vars, smp_vars, ctl_vars>>

\* lines 103-109: sequence_to_midi wrote <generation_id>.mid and returned True
CreateMidi ==
    /\ svc_pc = "generating"
    /\ SequenceReturned
    /\ generated_dir' = generated_dir \cup {generation_id}
    /\ success' = "True"
    /\ svc_pc' = AfterMidi("True")
    /\ UNCHANGED <<generation_id, _model, _model_path, db_records, responses>>
    /\ UNCHANGED <<quant_vars, enc_vars, gen_vars, dec_vars, win_vars, pp_vars, smp_vars, ctl_vars>>

\* lines 107-110: sequence_to_midi returned False, RuntimeError is raised; the
\* failed write may or may not have left a file
CreateMidiFails ==
    /\ svc_pc = "generating"
    /\ SequenceReturned
    /\ \E left \in BOOLEAN :
          generated_dir' = IF left THEN generated_dir \cup {generation_id}
                           ELSE generated_dir
    /\ success' = "False"
    /\ svc_pc' = AfterMidi("False")
    /\ responses' = Append(responses, "RuntimeError")
    /\ UNCHANGED <<generation_id, _model, _model_path, db_records>>
    /\ UNCHANGED <<quant_vars, enc_vars, gen_vars, dec_vars, win_vars, pp_vars, smp_vars, ctl_vars>>

\* line 113: midi_to_mp3 raises (no SoundFont, FluidSynth or FFmpeg failure)
ConvertFails ==
    /\ svc_pc = "midi"
    /\ svc_pc' = "failed"
    /\ responses' = Append(responses, "Exception")
    /\ UNCHANGED <<generation_id, _model, _model_path, generated_dir, db_records, success>>
    /\ UNCHANGED <<quant_vars, enc_vars, gen_vars, dec_vars, win_vars, pp_vars, smp_vars, ctl_vars>>

\* lines 113-142: the MP3 is made, save_generated_music_to_db inserts the
\* document or catches the database error, and the response is returned
SaveAndRespond ==
    /\ svc_pc = "midi"
    /\ \E saved \in BOOLEAN :
          db_records' = IF saved THEN db_records \cup {generation_id} ELSE db_records
    /\ svc_pc' = "responded"
    /\ responses' = Append(responses, "response")
    /\ UNCHANGED <<generation_id, _model, _model_path, generated_dir, success>>
    /\ UNCHANGED <<quant_vars, enc_vars, gen_vars, dec_vars, win_vars, pp_vars, smp_vars, ctl_vars>>

InitSvc ==
    /\ QuantIdle /\ EncIdle /\ GenIdle /\ DecIdle
    /\ WinIdle /\ SvcIdle /\ PpIdle /\ SmpIdle /\ CtlIdle

NextSvc ==
    \/ GetModelNotFound
    \/ GetModelLoadFails
    \/ StartGeneration
    \/ CopySeed
    \/ GenerateStep
    \/ PredictorRaises
    \/ SampleRaises
    \/ ReturnGenerated
    \/ PropagateFailure
    \/ CreateMidi
    \/ CreateMidiFails
    \/ ConvertFails
    \/ SaveAndRespond

SpecSvc == InitSvc /\ [][NextSvc]_vars

---------------------------------------------------------------------------
(* Claims about the generation service, checked under SpecSvc *)

\* C12 as stated: a generation request with temperature <= 0 or with
\* target_length smaller than the seed length is refused before the predictor
\* is invoked even once, and no sequence is returned.
C12_EagerRejection ==
    (svc_pc # "idle" /\ gen_pc # "idle"
        /\ (temperature <= 0 \/ length < SEED_LEN)) =>
            /\ predict_calls = 0
            /\ gen_pc # "returned"
            /\ svc_pc \notin {"midi", "responded"}

\* C25: a generated-music record is handed to storage only after the MIDI file
\* was written successfully and the MP3 conversion returned; when the MIDI
\* writer reports failure the request fails with an error, the write is not
\* retried and no record is stored.
C25_PersistAfterRender ==
    /\ [](/\ db_records \subseteq generated_dir
          /\ success = "False" =>
                /\ svc_pc = "failed"
                /\ responses[Len(responses)] = "RuntimeError"
                /\ generation_id \notin db_records
          /\ svc_pc = "failed" => generation_id \notin db_records)
    /\ [][db_records' # db_records =>
             /\ svc_pc = "midi" /\ success = "True"
             /\ generation_id \in generated_dir
             /\ db_records' = db_records \cup {generation_id}
             /\ svc_pc' = "responded"]_vars
    /\ [][(svc_pc = "failed" /\ generation_id' = generation_id) =>
             UNCHANGED <<svc_pc, generated_dir, db_records, success>>]_vars

\* the MIDI writer failed in the first request, leaving a file, and no
\* record was stored for it; the second request wrote its file, was
\* converted and was stored
C25_Witness ==
    /\ responses = <<"RuntimeError", "response">>
    /\ success = "True"
    /\ svc_pc = "responded"
    /\ generated_dir = {1, 2}
    /\ db_records = {2}

\* C13: if the predictor raises at any step of the loop, the failure
\* propagates to the caller of generate_sequence and generate_music, the
\* predictor is not invoked again for that request, no MIDI file or database
\* record is produced for it, and the module's cached model is left as it
\* was, so that a later request is served as before.
C13_PredictorFailureAborts ==
    /\ [](gen_pc = "raised" =>
            /\ svc_pc \in {"generating", "failed"}
            /\ svc_pc = "failed" => responses[Len(responses)] = "Exception"
            /\ generation_id \notin generated_dir
            /\ generation_id \notin db_records
            /\ _model = "loaded")
    /\ [][(gen_pc' = "raised" /\ generation_id' = generation_id) =>
             /\ gen_pc = "raised" => (predict_calls' = predict_calls /\ generated' = generated)
             /\ UNCHANGED <<_model, _model_path, generated_dir, db_records>>]_vars
    /\ [][(gen_pc = "raised" /\ generation_id' = generation_id) =>
             gen_pc' = "raised"]_vars

\* generate_sequence raised in the first request, which failed without a
\* file or a record, and the second request was served with the same cached
\* model after 2 predictor calls
C13_Witness ==
    /\ responses = <<"Exception", "response">>
    /\ generated_dir = {2}
    /\ db_records = {2}
    /\ _model = "loaded"
    /\ gen_pc = "returned"
    /\ predict_calls = 2

---------------------------------------------------------------------------
(* preprocess.py: the batch driver, preprocess_dataset *)

MaxFiles == 4

\* the kinds of MIDI file under data_dir: one that parses into events, one
\* that parses into no event, one converter.parse fails on
FileKinds == {"valid", "silent", "corrupt"}

DirInputs == UNION {[1..n -> FileKinds] : n \in 0..MaxFiles}

\* lines 38-39: midi_files[:max_files]
Truncate(files, limit) == IF Len(files) <= limit THEN files ELSE SubSeq(files, 1, limit)

InitBatch ==
    /\ QuantIdle /\ EncIdle /\ GenIdle /\ DecIdle
    /\ WinIdle /\ SvcIdle /\ SmpIdle /\ CtlIdle
    /\ pp_pc = "start"
    /\ dir_files \in DirInputs
    /\ max_files \in 1..MaxFiles
    /\ midi_files = << >>
    /\ pp_idx = 0
    /\ all_sequences = << >>

\* lines 233-236: midi_files = collect_midi_files(data_dir, max_files)
CollectMidiFiles ==
    /\ pp_pc = "start"
    /\ midi_files' = Truncate(dir_files, max_files)
    /\ pp_pc' = "collected"
    /\ UNCHANGED <<dir_files, max_files, pp_idx, all_sequences>>
    /\ UNCHANGED <<quant_vars, enc_vars, gen_vars, dec_vars, win_vars, svc_vars, smp_vars, ctl_vars>>

\* lines 238-241: no file was found, the driver returns
ReturnNoFiles ==
    /\ pp_pc = "collected"
    /\ Len(midi_files) = 0
    /\ pp_pc' = "returned"
    /\ UNCHANGED <<dir_files, max_files, midi_files, pp_idx, all_sequences>>
    /\ UNCHANGED <<quant_vars, enc_vars, gen_vars, dec_vars, win_vars, svc_vars, smp_vars, ctl_vars>>

\* lines 243-248: the first iteration of the loop calls
\* extract_notes_from_midi, a name that is defined nowhere (the encoder is
\* extract_events_from_midi): NameError is raised out of preprocess_dataset
\* before any file is read, whatever the file is
ExtractNotesRaises ==
    /\ pp_pc = "collected"
    /\ Len(midi_files) > 0
    /\ all_sequences' = << >>
    /\ pp_pc' = "raised"
    /\ UNCHANGED <<dir_files, max_files, midi_files, pp_idx>>
    /\ UNCHANGED <<quant_vars, enc_vars, gen_vars, dec_vars, win_vars, svc_vars, smp_vars, ctl_vars>>

NextBatch ==
    \/ CollectMidiFiles
    \/ ReturnNoFiles
    \/ ExtractNotesRaises

SpecBatch == InitBatch /\ [][NextBatch]_vars

---------------------------------------------------------------------------
(* Claims about the batch driver, checked under SpecBatch *)

\* C11 as stated: when parsing one file of the batch fails, nothing is raised
\* out of preprocess_dataset, and every other file of the batch is still
\* processed: the loop finishes all the files.
C11_ParseFailureNonFatal ==
    (pp_pc \in {"returned", "raised"}
        /\ \E k \in 1..Len(midi_files) : midi_files[k] = "corrupt") =>
            /\ pp_pc = "returned"
            /\ pp_idx = Len(midi_files)

---------------------------------------------------------------------------
(* generate.py: the sampler, sample_with_temperature.  Probabilities are   *)
(* in thousandths, logarithms and exponents in hundredths of a nat, and    *)
(* the temperature is 1 / inv_temperature.                                 *)

\* np.log(p + 1e-10), rounded to hundredths, for the probabilities used
LogCenti(p) ==
    CASE p = 10  -> -461
      [] p = 100 -> -230
      [] p = 200 -> -161
      [] p = 300 -> -120
      [] p = 500 -> -69
      [] p = 600 -> -51
      [] p = 980 -> -2

\* line 64: np.log(predictions + 1e-10) / temperature
ScaledLog(p, inv_temp) == LogCenti(p) * inv_temp

\* np.exp returns 0.0 below ln(2^-150) for float32 and below ln(2^-1075)
\* for float64
UnderflowAt32 == -10397
UnderflowAt64 == -74513
UnderflowAt(dtype) == IF dtype = "float32" THEN UnderflowAt32 ELSE UnderflowAt64

\* np.random.choice draws a 53-bit uniform number against the cumulative
\* sums: a class whose probability is below 2^-53 of the largest is never
\* returned
CdfResolution == 3674

\* line 65: the classes whose np.exp(...) is not 0.0
Support(preds, inv_temp, dtype) ==
    {i \in 1..Len(preds) : ScaledLog(preds[i], inv_temp) >= UnderflowAt(dtype)}

\* the largest scaled logarithm of the classes of a non-empty set
MaxScaled(preds, inv_temp, classes) ==
    CHOOSE x \in {ScaledLog(preds[i], inv_temp) : i \in classes} :
        \A i \in classes : ScaledLog(preds[i], inv_temp) <= x

\* line 66: the indices np.random.choice can return (numbered from 1)
Returnable(preds, inv_temp, dtype) ==
    LET classes == Support(preds, inv_temp, dtype)
    IN  {i \in classes :
            MaxScaled(preds, inv_temp, classes) - ScaledLog(preds[i], inv_temp)
                <= CdfResolution}

\* np.argmax of the input distribution (numbered from 1)
ArgMax(preds) == CHOOSE i \in 1..Len(preds) : \A j \in 1..Len(preds) : preds[j] <= preds[i]

MaxInvExp == 5

RECURSIVE Pow10(_)
Pow10(e) == IF e = 0 THEN 1 ELSE 10 * Pow10(e - 1)

\* temperatures 1, 0.1, ..., 10^-MaxInvExp
InvTemperatureInputs == {Pow10(e) : e \in 0..MaxInvExp}

\* distributions with a unique maximum
PredictionInputs ==
    { <<980, 10, 10>>, <<10, 980, 10>>, <<500, 300, 200>>, <<200, 300, 500>>,
      <<300, 500, 200>>, <<100, 300, 600>> }

InitSample ==
    /\ QuantIdle /\ EncIdle /\ GenIdle /\ DecIdle
    /\ WinIdle /\ SvcIdle /\ PpIdle /\ CtlIdle
    /\ smp_pc = "call"
    /\ smp_predictions \in PredictionInputs
    /\ inv_temperature \in InvTemperatureInputs
    /\ smp_dtype \in {"float32", "float64"}
    /\ smp_ret = -1

\* lines 64-66: some exponential is not 0.0, np.random.choice returns an index
ChoiceReturns ==
    /\ smp_pc = "call"
    /\ \E i \in Returnable(smp_predictions, inv_temperature, smp_dtype) :
          smp_ret' = i
    /\ smp_pc' = "returned"
    /\ UNCHANGED <<smp_predictions, inv_temperature, smp_dtype>>
    /\ UNCHANGED <<quant_vars, enc_vars, gen_vars, dec_vars, win_vars, svc_vars, pp_vars, ctl_vars>>

\* lines 65-66: every exponential is 0.0, the division by their sum gives
\* NaN and np.random.choice raises ValueError
ChoiceRaises ==
    /\ smp_pc = "call"
    /\ Support(smp_predictions, inv_temperature, smp_dtype) = {}
    /\ smp_pc' = "raised"
    /\ UNCHANGED <<smp_predictions, inv_temperature, smp_dtype, smp_ret>>
    /\ UNCHANGED <<quant_vars, enc_vars, gen_vars, dec_vars, win_vars, svc_vars, pp_vars, ctl_vars>>

NextSample ==
    \/ ChoiceReturns
    \/ ChoiceRaises

SpecSample == InitSample /\ [][NextSample]_vars

---------------------------------------------------------------------------
(* Claims about the sampler, checked under SpecSample *)

\* C16 as stated: as temperature tends to 0 from above, sample_with_temperature
\* always returns the index of the highest-probability class, for any
\* distribution with a unique maximum; here at the lowest temperature.
C16_ArgmaxAtZero ==
    (smp_pc \in {"returned", "raised"} /\ inv_temperature = Pow10(MaxInvExp)) =>
        /\ smp_pc = "returned"
        /\ smp_ret = ArgMax(smp_predictions)

---------------------------------------------------------------------------
(* training_controller.py: start_training, stop_training and the task      *)
(* _run_training_background, with the thread run_in_executor hands the     *)
(* training function to.  The handlers of the event loop contain no await  *)
(* besides the one of line 120, so each is one step; the worker thread     *)
(* runs between them.  train.train_model as written binds the arguments    *)
(* of line 120 to other parameters and raises before its first epoch       *)
(* (train_model_raises); a training function that installs                 *)
(* train.TrainingCallback with the stats_callback and check_stop it is     *)
(* given runs the epochs on_epoch_begin / on_epoch_end describe.           *)

MaxEpochs == 2
MaxCalls == 4

non_ctl_vars == <<quant_vars, enc_vars, gen_vars, dec_vars, win_vars, svc_vars,
                  pp_vars, smp_vars>>

\* every task taken for finished
TaskNeverActive(task, pcs) == FALSE

\* lines 187 and 199, is_training_active (219-221):
\* training_task and not training_task.done()
TaskNotDone(task, pcs) == task # 0 /\ pcs[task] # "done"

\* the number asyncio.create_task gives the next task
NextRun == CHOOSE n \in Runs : task_pc[n] = "none" /\ \A m \in 1..(n - 1) : task_pc[m] # "none"

CtlCall(fn, ret, call) == [fn |-> fn, arg |-> 0, ret |-> ret, no |-> call.no + 1]

\* lines 184-194, the task is None or done: the flag is cleared and a new
\* task is created
start_training ==
    /\ trn_call.no < MaxCalls
    /\ ~TaskNotDone(training_task, task_pc)
    /\ \E n \in Runs : task_pc[n] = "none"
    /\ should_stop_training' = FALSE
    /\ training_task' = NextRun
    /\ task_pc' = [task_pc EXCEPT ![NextRun] = "created"]
    /\ trn_call' = CtlCall("start_training", "True", trn_call)
    /\ UNCHANGED <<task_cancel, current_session, session_mem, session_db, worker>>
    /\ UNCHANGED <<non_ctl_vars, lst_vars>>

\* lines 187-189: a task exists and is not done, return False
start_training_refused ==
    /\ trn_call.no < MaxCalls
    /\ TaskNotDone(training_task, task_pc)
    /\ trn_call' = CtlCall("start_training", "False", trn_call)
    /\ UNCHANGED <<training_task, task_pc, task_cancel, should_stop_training,
                   current_session, session_mem, session_db, worker>>
    /\ UNCHANGED <<non_ctl_vars, lst_vars>>

\* lines 196-206, a task exists and is not done: the flag is set and the
\* task is cancelled
stop_training ==
    /\ trn_call.no < MaxCalls
    /\ TaskNotDone(training_task, task_pc)
    /\ should_stop_training' = TRUE
    /\ task_cancel' = [task_cancel EXCEPT ![training_task] = TRUE]
    /\ trn_call' = CtlCall("stop_training", "True", trn_call)
    /\ UNCHANGED <<training_task, task_pc, current_session, session_mem, session_db,
                   worker>>
    /\ UNCHANGED <<non_ctl_vars, lst_vars>>

\* lines 199-201: no task, or the task is done, return False
stop_training_refused ==
    /\ trn_call.no < MaxCalls
    /\ ~TaskNotDone(training_task, task_pc)
    /\ trn_call' = CtlCall("stop_training", "False", trn_call)
    /\ UNCHANGED <<training_task, task_pc, task_cancel, should_stop_training,
                   current_session, session_mem, session_db, worker>>
    /\ UNCHANGED <<non_ctl_vars, lst_vars>>

\* training_session.py lines 15-23 with the arguments of lines 52-59
TrainingSession == [status |-> "running", end_time |-> FALSE, current_epoch |-> 0,
                    epochs_data |-> << >>]

\* lines 43-131, up to the await: the flag is cleared, the module's session
\* is replaced by a new one, the session is inserted in the database and
\* the training function is submitted to the executor
_run_training_background(n) ==
    /\ task_pc[n] = "created"
    /\ ~task_cancel[n]
    /\ should_stop_training' = FALSE
    /\ current_session' = n
    /\ session_mem' = [session_mem EXCEPT ![n] = TrainingSession]
    /\ session_db' = [session_db EXCEPT ![n] = TrainingSession]
    /\ \E total \in 1..MaxEpochs :
          worker' = [worker EXCEPT ![n] = [pc |-> "queued", epoch |-> 0,
                                           total_epochs |-> total,
                                           stop_training |-> FALSE]]
    /\ task_pc' = [task_pc EXCEPT ![n] = "awaiting"]
    /\ UNCHANGED <<training_task, task_cancel, trn_call>>
    /\ UNCHANGED <<non_ctl_vars, lst_vars>>

\* line 203 on a task whose coroutine has not started: the task ends with
\* CancelledError before line 46
cancelled_before_start(n) ==
    /\ task_pc[n] = "created"
    /\ task_cancel[n]
    /\ task_pc' = [task_pc EXCEPT ![n] = "done"]
    /\ task_cancel' = [task_cancel EXCEPT ![n] = FALSE]
    /\ UNCHANGED <<training_task, should_stop_training, current_session, session_mem,
                   session_db, worker, trn_call>>
    /\ UNCHANGED <<non_ctl_vars, lst_vars>>

\* line 120: a thread of the executor takes the call of the training function
worker_starts(n) ==
    /\ worker[n].pc = "queued"
    /\ worker' = [worker EXCEPT ![n].pc = "begin", ![n].epoch = 1]
    /\ UNCHANGED <<training_task, task_pc, task_cancel, should_stop_training,
                   current_session, session_mem, session_db, trn_call>>
    /\ UNCHANGED <<non_ctl_vars, lst_vars>>

\* train.py lines 200-245 called as in line 120: y_train is total_epochs,
\* prepare_targets raises before the first epoch
train_model_raises(n) ==
    /\ worker[n].pc = "begin"
    /\ worker[n].epoch = 1
    /\ worker' = [worker EXCEPT ![n].pc = "raised"]
    /\ UNCHANGED <<training_task, task_pc, task_cancel, should_stop_training,
                   current_session, session_mem, session_db, trn_call>>
    /\ UNCHANGED <<non_ctl_vars, lst_vars>>

\* train.py lines 30-33 with check_stop (lines 109-110)
on_epoch_begin(n) ==
    /\ worker[n].pc = "begin"
    /\ worker' = [worker EXCEPT ![n].pc = "end",
                                ![n].stop_training = @ \/ should_stop_training]
    /\ UNCHANGED <<training_task, task_pc, task_cancel, should_stop_training,
                   current_session, session_mem, session_db, trn_call>>
    /\ UNCHANGED <<non_ctl_vars, lst_vars>>

\* the epoch stats_callback stores: the run it comes from and its number
TrainingEpoch(n, epoch) == [run |-> n, epoch |-> epoch]

\* lines 94-96: current_session is the module's global, not the session of
\* the run the callback was made for
CallbackSession(n, session) == session

\* train.py lines 35-65 with stats_callback lines 68-96 (the loop of lines
\* 98-103 is NotifyListener), then the fit loop's test of stop_training and
\* of the epoch count
on_epoch_end(n) ==
    LET w == worker[n]
        stop == w.stop_training \/ should_stop_training
        target == CallbackSession(n, current_session)
    IN  /\ w.pc = "end"
        /\ session_db' = [session_db EXCEPT
                            ![n].current_epoch = w.epoch,
                            ![n].epochs_data = Append(@, TrainingEpoch(n, w.epoch))]
        /\ session_mem' = [session_mem EXCEPT
                            ![target].current_epoch = w.epoch,
                            ![target].epochs_data = Append(@, TrainingEpoch(n, w.epoch))]
        /\ worker' = [worker EXCEPT
                        ![n].stop_training = stop,
                        ![n].pc = IF stop \/ w.epoch = w.total_epochs
                                  THEN "returned" ELSE "begin",
                        ![n].epoch = IF stop \/ w.epoch = w.total_epochs
                                     THEN w.epoch ELSE w.epoch + 1]
        /\ UNCHANGED <<training_task, task_pc, task_cancel, should_stop_training,
                       current_session, trn_call>>
        /\ UNCHANGED <<non_ctl_vars, lst_vars>>

\* lines 133 and 147: the status written after the training function returned
FinishStatus(should_stop) == IF should_stop THEN "stopped" ELSE "completed"

\* lines 164-165 and 176-177: only the status of the module's session is
\* assigned, its end_time stays as it was
EndTimeKept(session) == session.end_time

\* lines 133-160: the training function returned, the document and the
\* module's session get the status and the end time
training_returned(n) ==
    /\ task_pc[n] = "awaiting"
    /\ ~task_cancel[n]
    /\ worker[n].pc = "returned"
    /\ session_db' = [session_db EXCEPT
                        ![n].status = FinishStatus(should_stop_training),
                        ![n].end_time = TRUE]
    /\ session_mem' = [session_mem EXCEPT
                        ![current_session].status = FinishStatus(should_stop_training),
                        ![current_session].end_time = TRUE]
    /\ task_pc' = [task_pc EXCEPT ![n] = "done"]
    /\ UNCHANGED <<training_task, task_cancel, should_stop_training, current_session,
                   worker, trn_call>>
    /\ UNCHANGED <<non_ctl_vars, lst_vars>>

\* lines 162-171: CancelledError at the await of line 120.  The future of
\* the executor is cancelled with the task: a call no thread has taken yet
\* is dropped, a running one goes on
training_cancelled(n) ==
    /\ task_pc[n] = "awaiting"
    /\ task_cancel[n]
    /\ should_stop_training' = TRUE
    /\ session_mem' = [session_mem EXCEPT
                        ![current_session].status = "stopped",
                        ![current_session].end_time =
                            EndTimeKept(session_mem[current_session])]
    /\ session_db' = [session_db EXCEPT ![n].status = "stopped", ![n].end_time = TRUE]
    /\ worker' = [worker EXCEPT
                    ![n].pc = IF @ = "queued" THEN "cancelled" ELSE @]
    /\ task_pc' = [task_pc EXCEPT ![n] = "done"]
    /\ task_cancel' = [task_cancel EXCEPT ![n] = FALSE]
    /\ UNCHANGED <<training_task, current_session, trn_call>>
    /\ UNCHANGED <<non_ctl_vars, lst_vars>>

\* lines 172-182: the training function raised
training_failed(n) ==
    /\ task_pc[n] = "awaiting"
    /\ ~task_cancel[n]
    /\ worker[n].pc = "raised"
    /\ session_mem' = [session_mem EXCEPT
                        ![current_session].status = "error",
                        ![current_session].end_time =
                            EndTimeKept(session_mem[current_session])]
    /\ session_db' = [session_db EXCEPT ![n].status = "error", ![n].end_time = TRUE]
    /\ task_pc' = [task_pc EXCEPT ![n] = "done"]
    /\ UNCHANGED <<training_task, task_cancel, should_stop_training, current_session,
                   worker, trn_call>>
    /\ UNCHANGED <<non_ctl_vars, lst_vars>>

InitTrain ==
    /\ QuantIdle /\ EncIdle /\ GenIdle /\ DecIdle
    /\ WinIdle /\ SvcIdle /\ PpIdle /\ SmpIdle
    /\ TrnIdle /\ LstIdle

NextTrain ==
    \/ start_training
    \/ start_training_refused
    \/ stop_training
    \/ stop_training_refused
    \/ \E n \in Runs : _run_training_background(n)
    \/ \E n \in Runs : cancelled_before_start(n)
    \/ \E n \in Runs : worker_starts(n)
    \/ \E n \in Runs : train_model_raises(n)
    \/ \E n \in Runs : on_epoch_begin(n)
    \/ \E n \in Runs : on_epoch_end(n)
    \/ \E n \in Runs : training_returned(n)
    \/ \E n \in Runs : training_cancelled(n)
    \/ \E n \in Runs : training_failed(n)

SpecTrain == InitTrain /\ [][NextTrain]_vars

---------------------------------------------------------------------------
(* training_controller.py: the listener list and the loop of               *)
(* stats_callback over it.  add_training_listener and                      *)
(* remove_training_listener run on the event loop (routes/training.py,     *)
(* training_websocket); stats_callback runs on the executor thread, so the *)
(* calls of the two handlers fall between the iterations of its for loop.  *)
(* A listener stands for the send_stats closure of one websocket.          *)

MaxListeners == 3
MaxStats == 2
MaxListenerCalls == 4

Listeners == 1..MaxListeners

\* the elements of a list
Elements(list) == {list[k] : k \in 1..Len(list)}

\* list.index(x), numbered from 1, for an x in the list
Index(list, x) == CHOOSE k \in 1..Len(list) : list[k] = x /\ \A j \in 1..(k - 1) : list[j] # x

\* list.remove(x) for an x in the list: the first occurrence is deleted
Remove(list, x) ==
    SubSeq(list, 1, Index(list, x) - 1) \o SubSeq(list, Index(list, x) + 1, Len(list))

ListenerCall(fn, l) == [fn |-> fn, arg |-> l, ret |-> "None", no |-> lst_call.no + 1]

\* lines 208-211, called at routes/training.py line 57 with the closure the
\* websocket handler has just made
add_training_listener(l) ==
    /\ lst_call.no < MaxListenerCalls
    /\ l \notin Elements(added)
    /\ training_listeners' = Append(training_listeners, l)
    /\ added' = Append(added, l)
    /\ lst_call' = ListenerCall("add_training_listener", l)
    /\ UNCHANGED <<removed, stats_no, cb_pc, loop_idx, at_start, removed_during,
                   notified>>
    /\ UNCHANGED <<non_ctl_vars, trn_vars>>

\* lines 213-217: the listener is removed if it is in the list
remove_training_listener(l) ==
    /\ lst_call.no < MaxListenerCalls
    /\ IF l \in Elements(training_listeners)
       THEN /\ training_listeners' = Remove(training_listeners, l)
            /\ removed' = removed \cup {l}
            /\ removed_during' = IF cb_pc = "loop" THEN removed_during \cup {l}
                                 ELSE removed_during
       ELSE UNCHANGED <<training_listeners, removed, removed_during>>
    /\ lst_call' = ListenerCall("remove_training_listener", l)
    /\ UNCHANGED <<added, stats_no, cb_pc, loop_idx, at_start, notified>>
    /\ UNCHANGED <<non_ctl_vars, trn_vars>>

\* lines 68-99: a stats update arrives and the for loop takes an iterator
\* over training_listeners
stats_callback ==
    /\ cb_pc = "idle"
    /\ stats_no < MaxStats
    /\ stats_no' = stats_no + 1
    /\ cb_pc' = "loop"
    /\ loop_idx' = 0
    /\ at_start' = Elements(training_listeners)
    /\ removed_during' = {}
    /\ UNCHANGED <<training_listeners, added, removed, notified, lst_call>>
    /\ UNCHANGED <<non_ctl_vars, trn_vars>>

\* an exception of run_coroutine_threadsafe leaving the for loop
AfterNotifyUncaught(idx, raised, n) == IF raised THEN n ELSE idx + 1

\* lines 100-103: the exception is caught inside the loop, which goes on
\* with the next index
AfterNotify(idx, raised, n) == idx + 1

\* lines 99-103, one iteration: the iterator yields the item at its index of
\* the list as it is now, run_coroutine_threadsafe is called for it, and an
\* exception of that call is caught inside the loop
NotifyListener ==
    /\ cb_pc = "loop"
    /\ loop_idx < Len(training_listeners)
    /\ \E raised \in BOOLEAN :
          /\ notified' = Append(notified, [stats |-> stats_no,
                                           listener |-> training_listeners[loop_idx + 1],
                                           raised |-> raised])
          /\ loop_idx' = AfterNotify(loop_idx, raised, Len(training_listeners))
    /\ UNCHANGED <<training_listeners, added, removed, stats_no, cb_pc, at_start,
                   removed_during, lst_call>>
    /\ UNCHANGED <<non_ctl_vars, trn_vars>>

\* line 99: the iterator's index has reached the length of the list
stats_callback_returns ==
    /\ cb_pc = "loop"
    /\ loop_idx >= Len(training_listeners)
    /\ cb_pc' = "idle"
    /\ UNCHANGED <<training_listeners, added, removed, stats_no, loop_idx, at_start,
                   removed_during, notified, lst_call>>
    /\ UNCHANGED <<non_ctl_vars, trn_vars>>

InitListen ==
    /\ QuantIdle /\ EncIdle /\ GenIdle /\ DecIdle
    /\ WinIdle /\ SvcIdle /\ PpIdle /\ SmpIdle
    /\ TrnIdle /\ LstIdle

NextListen ==
    \/ \E l \in Listeners : add_training_listener(l)
    \/ \E l \in Listeners : remove_training_listener(l)
    \/ stats_callback
    \/ NotifyListener
    \/ stats_callback_returns

SpecListen == InitListen /\ [][NextListen]_vars

---------------------------------------------------------------------------
(* Claims about the listeners, checked under SpecListen *)

\* the listeners update u was dispatched to
C26_NotifiedOf(u) ==
    {notified[k].listener : k \in {j \in 1..Len(notified) : notified[j].stats = u}}

\* every listener registered from the begin to the end of the last dispatch
\* was notified of it
C26_Complete ==
    (cb_pc = "idle" /\ stats_no > 0) =>
        (at_start \ removed_during) \subseteq C26_NotifiedOf(stats_no)

\* the same, for a dispatch during which no listener was removed
C26_CompleteUndisturbed ==
    (cb_pc = "idle" /\ stats_no > 0 /\ removed_during = {}) =>
        at_start \subseteq C26_NotifiedOf(stats_no)

\* the notifications of one update follow the order of the additions
C26_Order ==
    \A i, j \in 1..Len(notified) :
        (i < j /\ notified[i].stats = notified[j].stats) =>
            Index(added, notified[i].listener) < Index(added, notified[j].listener)

\* a removed listener is notified of nothing from its removal on
C26_RemovedGetNothing ==
    [][notified' # notified => notified'[Len(notified')].listener \notin removed]_vars

\* removing a listener that is not registered changes nothing
C26_AbsentRemove ==
    [][(/\ lst_call'.no # lst_call.no
        /\ lst_call'.fn = "remove_training_listener"
        /\ lst_call'.arg \notin Elements(training_listeners)) =>
            UNCHANGED <<training_listeners, added, removed, stats_no, cb_pc, loop_idx,
                        notified>>]_vars

\* C26, amended: each stats update is dispatched, in the order they were
\* added, to the listeners registered when its dispatch begins, whenever no
\* listener is removed while it is being dispatched (a removal during the
\* dispatch can make the loop skip a listener that stays registered); a
\* failure while notifying one listener does not prevent the notification
\* of those after it; a removed listener receives no update dispatched after
\* its removal; removing a listener that is not registered changes nothing.
C26_ListenerDeliveryUndisturbed ==
    /\ [](C26_CompleteUndisturbed /\ C26_Order)
    /\ C26_RemovedGetNothing
    /\ C26_AbsentRemove

\* C26 witness: the notification of listener 1 failed and listener 2 was
\* notified of update 1 after it; listener 1 was then removed and update 2
\* went to listener 2 alone
C26_Witness ==
    /\ cb_pc = "idle"
    /\ stats_no = 2
    /\ 1 \in removed
    /\ notified = << [stats |-> 1, listener |-> 1, raised |-> TRUE],
                     [stats |-> 1, listener |-> 2, raised |-> FALSE],
                     [stats |-> 2, listener |-> 2, raised |-> FALSE] >>

\* C26 as stated: each stats update is dispatched to the registered listeners
\* in the order they were added; a failure while notifying one listener does
\* not prevent the notification of those after it; a removed listener receives
\* no update dispatched after its removal; removing a listener that is not
\* registered changes nothing.
C26_ListenerDelivery ==
    /\ [](C26_Complete /\ C26_Order)
    /\ C26_RemovedGetNothing
    /\ C26_AbsentRemove

---------------------------------------------------------------------------
(* Claims about the training controller, checked under SpecTrain *)

C27_Active == training_task # 0 /\ task_pc[training_task] # "done"

C27_Called(fn) == trn_call'.no # trn_call.no /\ trn_call'.fn = fn

\* C27: start_training returns False and leaves training_task,
\* current_session and the stop flag unchanged whenever a task exists and is
\* not done; stop_training returns False and changes nothing whenever no task
\* exists or the task is done; at most one task that is not done exists at
\* any time.
C27_SingleTrainingTask ==
    /\ [](Cardinality({n \in Runs : task_pc[n] \notin {"none", "done"}}) <= 1)
    /\ [][/\ (C27_Called("start_training") /\ C27_Active) =>
                /\ trn_call'.ret = "False"
                /\ UNCHANGED <<training_task, current_session, should_stop_training>>
          /\ (C27_Called("stop_training") /\ ~C27_Active) =>
                /\ trn_call'.ret = "False"
                /\ UNCHANGED <<training_task, task_pc, task_cancel,
                               should_stop_training, current_session, session_mem,
                               session_db, worker>>]_vars

\* C27 witness: the first run was stopped, a second one is under way, and a
\* further start_training was refused
C27_Witness ==
    /\ trn_call.fn = "start_training"
    /\ trn_call.ret = "False"
    /\ task_pc[1] = "done"
    /\ training_task = 2
    /\ task_pc[2] = "awaiting"
    /\ session_db[1].status = "stopped"

\* the runs whose training function is between its call and its end
C29_Computing == {n \in Runs : worker[n].pc \in {"begin", "end"}}

\* stop_training returned True for run n
C29_Stopped(n) == task_cancel[n] \/ session_db[n].status = "stopped"

C29_OneComputation == Cardinality(C29_Computing) <= 1

C29_OwnEpochs ==
    \A s \in Runs : \A i \in 1..Len(session_mem[s].epochs_data) :
        session_mem[s].epochs_data[i].run = s

C29_ObservesFlag ==
    [][\A n \in Runs :
          (C29_Stopped(n) /\ worker[n].pc \in {"begin", "end"}
              /\ worker'[n] # worker[n] /\ worker'[n].pc # "raised") =>
                worker'[n].stop_training]_vars

\* C29 as stated: once stop_training has returned True, the worker thread of
\* that run observes the stop flag at its next epoch boundary and ends, even
\* if start_training is called again before; so no two training computations
\* run at once and a stopped run appends no epoch to the session of a later
\* run.
C29_StoppedRunStops ==
    /\ [](C29_OneComputation /\ C29_OwnEpochs)
    /\ C29_ObservesFlag

C30_Final == {"completed", "stopped", "error"}

C30_EndTimeSet ==
    \A s \in Runs : session_mem[s].status \in C30_Final => session_mem[s].end_time

C30_StatusStored ==
    \A s \in Runs :
        session_mem[s].status \in C30_Final => session_mem[s].status = session_db[s].status

C30_Transitions ==
    [][\A s \in Runs :
          /\ (session_mem[s].status = "none" /\ session_mem'[s].status # "none") =>
                session_mem'[s].status = "running"
          /\ session_mem[s].status = "running" =>
                session_mem'[s].status \in C30_Final \cup {"running"}
          /\ session_mem[s].status \in C30_Final =>
                session_mem'[s].status = session_mem[s].status]_vars

\* C30 as stated: a session is created with status "running", leaves it once,
\* to "completed", "stopped" or "error", and keeps that status; whenever the
\* status of the in-memory session is not "running" its end_time is set and
\* its status is the one stored for it in the database.
C30_SessionLifecycle ==
    /\ [](C30_EndTimeSet /\ C30_StatusStored)
    /\ C30_Transitions

===========================================================================
